---------------------------- MODULE Spec2Model ----------------------------
(***************************************************************************)
(* A model of the character-grid display engine of                         *)
(* internet-radio-lcd-screen-rs: the wrapping text writer                  *)
(* (app/src/display.rs), the widgets (app/src/widgets.rs) and the event    *)
(* loop (app/src/lib.rs).                                                  *)
(*                                                                         *)
(* Text is a sequence of one-character strings.  The characters range over *)
(* ASCII, for which the byte offsets that str::char_indices yields and the *)
(* character counts that chars().count() yields coincide.                  *)
(*                                                                         *)
(* An Option is a sequence of length at most one: <<>> is None and <<x>>   *)
(* is Some(x).                                                             *)
(***************************************************************************)
EXTENDS Integers, Sequences, FiniteSets, TLC

VARIABLES
    view,       \* the widget (tree) under operation: its fields
    data,       \* the data currently bound to the widget; the writer's input
    display,    \* WrappingTextDisplay: its `segment` field
    grid,       \* the character device: the character each cell shows
    calls,      \* the device calls (CharacterDisplay) the last operation issued
    op,         \* the last operation performed
    pre,        \* view, data, grid and op as they were before the last operation
    since,      \* ticks delivered since the last data change or force_repaint
    loop,       \* the event loop of do_run: its position, and what it did
                \* in the current iteration
    now,        \* the local wall clock, chrono::Local::now(), in minutes
    connection  \* the TCP connection to rradio: the bytes still to be read
                \* from it, and how it ends

vars == <<view, data, display, grid, calls, op, pre, since, loop, now, connection>>

----------------------------------------------------------------------------
(* Program constants *)

SCREEN_WIDTH == 20
SCREEN_HEIGHT == 4

\* view.rs, app
new_station_tics == 2

(* Bounds of the model *)

\* the writer specification: longest item text, and longest short segment
MaxItemLen == 3
MaxSegLen == 2

\* the scrolling label specification: longest text
MaxTextLen == 7

\* the widget tree specification: longest text of a label
MaxLabelLen == 1

\* the event loop specification: the items taken from the merged stream
MaxItems == 2

\* the player state specification: the fields one diff specifies
MaxDiffFields == 2

----------------------------------------------------------------------------
(* Text *)

Alphabet == {"a", " "}

IsWhitespace(c) == c = " "

TextsUpTo(n) == UNION {[1..k -> Alphabet] : k \in 0..n}

Min(a, b) == IF a <= b THEN a ELSE b

\* the first n characters of s (all of s when it is shorter)
Take(s, n) == SubSeq(s, 1, Min(n, Len(s)))

\* s without its first n characters: &s[n..]
Drop(s, n) == SubSeq(s, n + 1, Len(s))

Spaces(n) == [i \in 1..n |-> " "]

None == <<>>
Some(x) == <<x>>

----------------------------------------------------------------------------
(* Geometry: display.rs *)

CursorPosition(r, c) == [row |-> r, column |-> c]

Segment(p, n) == [position |-> p, length |-> n]

\* CursorPosition::offset; row and column are u8
RECURSIVE Carry(_)
Carry(p) ==
    IF p.column >= SCREEN_WIDTH
      THEN Carry(CursorPosition((p.row + 1) % 256, p.column - SCREEN_WIDTH))
      ELSE p

Offset(p, offset) == Carry(CursorPosition(p.row, (p.column + offset) % 256))

\* Segment::split: the head and the tail
Split(segment, offset) ==
    <<Segment(segment.position, offset),
      Segment(Offset(segment.position, offset), (segment.length - offset) % 256)>>

\* The arithmetic is in u8.  An overflow panics in a build with overflow
\* checks and wraps around in a build without them: a call has the set of
\* outcomes that the builds give.
Returned(value) == [panicked |-> FALSE, value |-> value]

Panicked(value) == [panicked |-> TRUE, value |-> value]

\* self.column += offset, or a self.row += 1 of the loop, overflows
OffsetOverflows(p, offset) ==
    \/ p.column + offset > 255
    \/ p.row + (((p.column + offset) % 256) \div SCREEN_WIDTH) > 255

\* CursorPosition::offset in every build
OffsetOutcomes(p, offset) ==
    {Returned(Offset(p, offset))}
        \cup (IF OffsetOverflows(p, offset) THEN {Panicked(p)} ELSE {})

\* Segment::split in every build; self.length - offset overflows when
\* offset is greater than the length
SplitOutcomes(segment, offset) ==
    {Returned(Split(segment, offset))}
        \cup (IF OffsetOverflows(segment.position, offset) \/ offset > segment.length
                THEN {Panicked(<<segment, segment>>)} ELSE {})

\* impl From<EntireScreen> for Segment
EntireScreen == Segment(CursorPosition(0, 0), SCREEN_WIDTH * SCREEN_HEIGHT)

\* impl From<Line> for Segment
Line(r) == Segment(CursorPosition(r, 0), SCREEN_WIDTH)

\* impl From<Lines> for Segment
Lines(row_start, row_end) ==
    Segment(CursorPosition(row_start, 0),
            ((1 + row_end - row_start) * SCREEN_WIDTH) % 256)

----------------------------------------------------------------------------
(* The character device: trait CharacterDisplay.  A call is recorded as    *)
(* it is made; the device shows each character at its cursor and moves     *)
(* the cursor one place to the right.                                      *)

NoPosition == CursorPosition(0, 0)

MoveCursorCall(p) == [call |-> "move_cursor", position |-> p, c |-> ""]
WriteCharCall(ch) == [call |-> "write_char", position |-> NoPosition, c |-> ch]
ClearCall == [call |-> "clear", position |-> NoPosition, c |-> ""]

\* the grid is the sequence of its cells, row after row
CellCount == SCREEN_WIDTH * SCREEN_HEIGHT

CellIndex(p) == p.row * SCREEN_WIDTH + p.column + 1

OnGrid(p) == p.row < SCREEN_HEIGHT /\ p.column < SCREEN_WIDTH

BlankGrid == SubSeq([i \in 1..CellCount |-> " "], 1, CellCount)

\* the device after one call: dv = [grid, cursor]
DeviceCall(dv, k) ==
    CASE k.call = "clear" -> [grid |-> BlankGrid, cursor |-> dv.cursor]
      [] k.call = "move_cursor" -> [grid |-> dv.grid, cursor |-> k.position]
      [] OTHER ->
            [grid |-> IF OnGrid(dv.cursor)
                        THEN [dv.grid EXCEPT ![CellIndex(dv.cursor)] = k.c]
                        ELSE dv.grid,
             cursor |-> CursorPosition(dv.cursor.row, dv.cursor.column + 1)]

RECURSIVE DeviceRun(_, _)
DeviceRun(dv, ks) ==
    IF ks = <<>> THEN dv
    ELSE IF Len(ks) = 1 THEN DeviceCall(dv, ks[1])
    ELSE LET half == Len(ks) \div 2
             first == DeviceRun(dv, SubSeq(ks, 1, half))
         IN \* the test has the first half evaluated before the second
            IF first.cursor = first.cursor
              THEN DeviceRun(first, SubSeq(ks, half + 1, Len(ks)))
              ELSE first

\* the grid after the calls ks; every write_to starts with a move_cursor
GridAfter(g, ks) == DeviceRun([grid |-> g, cursor |-> NoPosition], ks).grid

----------------------------------------------------------------------------
(* The wrapping text writer: display.rs, WrappingTextDisplay.  A writer    *)
(* value d is [segment, out]: the struct's segment field and the device    *)
(* calls made so far in the current operation.                             *)

\* WrappingTextDisplay::new
NewDisplay == [segment |-> EntireScreen]

\* the mutant of WriteChar that leaves wrapping to the device
WriteCharNoWrap(d, ch) ==
    IF d.segment.length > 0
      THEN [segment |-> Segment(CursorPosition(d.segment.position.row,
                                               d.segment.position.column + 1),
                                d.segment.length - 1),
            out |-> Append(d.out, WriteCharCall(ch))]
      ELSE d

\* impl core::fmt::Write: write_char
WriteChar(d, ch) ==
    LET d1 == IF d.segment.position.column >= SCREEN_WIDTH
                THEN LET p == CursorPosition(d.segment.position.row + 1, 0)
                     IN [segment |-> Segment(p, d.segment.length),
                         out |-> Append(d.out, MoveCursorCall(p))]
                ELSE d
    IN IF d1.segment.length > 0
         THEN [segment |-> Segment(CursorPosition(d1.segment.position.row,
                                                  d1.segment.position.column + 1),
                                   d1.segment.length - 1),
               out |-> Append(d1.out, WriteCharCall(ch))]
         ELSE d1

\* impl core::fmt::Write: write_str
RECURSIVE WriteStr(_, _)
WriteStr(d, s) ==
    IF s = <<>> THEN d
    ELSE LET written == WriteChar(d, Head(s))
         IN \* try_for_each: the test has the character written before the next
            IF written.segment.length >= 0 THEN WriteStr(written, Tail(s))
                                           ELSE written

\* the mutant of Pad that leaves the rest of the segment as it is
PadNothing(d) == d

\* the padding loop of write_to: while self.segment.length > 0
RECURSIVE Pad(_)
Pad(d) == IF d.segment.length > 0 THEN Pad(WriteChar(d, " ")) ELSE d

\* the mutant of WriteTo that goes on from the segment the writer tracks
WriteToKeepsSegment(d, segment, text) ==
    LET written == Pad(WriteStr([segment |-> d.segment,
                                 out |-> <<MoveCursorCall(d.segment.position)>>],
                                text))
    IN [segment |-> written.segment, out |-> d.out \o written.out]

\* TextDisplay::write_to, with the item's Display text
WriteTo(d, segment, text) ==
    LET written == Pad(WriteStr([segment |-> segment,
                                 out |-> <<MoveCursorCall(segment.position)>>],
                                text))
    IN [segment |-> written.segment, out |-> d.out \o written.out]

\* TextDisplay::clear
Clear(d) == [segment |-> d.segment, out |-> Append(d.out, ClearCall)]

\* the writer at the start of an operation: no device call made yet
Writer(dsp) == [segment |-> dsp.segment, out |-> <<>>]

----------------------------------------------------------------------------
(* The data the widgets of the view show: view.rs.  A value is shown as    *)
(* its Display text; two values are compared with PartialEq, as values.    *)
(* A station and the tags of a track are named by the value the diff       *)
(* carries; StationOf and TrackTagsOf give their fields.                   *)

Digits == <<"0", "1", "2", "3", "4", "5", "6", "7", "8", "9">>

\* Display of an unsigned integer
RECURSIVE NatText(_)
NatText(n) ==
    IF n < 10 THEN <<Digits[n + 1]>> ELSE NatText(n \div 10) \o <<Digits[(n % 10) + 1]>>

\* Display of a signed integer
IntText(n) == IF n < 0 THEN <<"-">> \o NatText(-n) ELSE NatText(n)

\* Display of an ArcStr of at most one character
ArcStrText(s) == IF s = "" THEN <<>> ELSE <<s>>

\* Option::unwrap_or_default of an optional text
UnwrapOrDefault(o) == IF o = None THEN <<>> ELSE o[1]

\* Option::or_else
OrElse(o, other) == IF o # None THEN o ELSE other

\* a station title with a second word, longer than a line of the grid
LongTitle ==
    <<"a", " ", "a", "a", "a", "a", "a", "a", "a", "a", "a", "a", "a",
          "a", "a", "a", "a", "a", "a", "a", "a", "a">>

\* rradio_messages::Station, by the value a diff carries
StationOf(val) ==
    [index |-> Some(<<"1">>),
     title |-> IF val = "long" THEN Some(LongTitle) ELSE Some(<<"a">>),
     source_type |-> "UrlList",
     tracks |-> <<[title |-> None, artist |-> None, album |-> None,
                   is_notification |-> FALSE]>>]

\* rradio_messages::TrackTags, by the value a diff carries
TrackTagsOf(val) ==
    [title |-> Some(<<"a", " ", "a">>), organisation |-> None,
     artist |-> None, album |-> None]

\* slice::get
Get(s, i) == IF i < Len(s) THEN Some(s[i + 1]) ELSE None

\* impl Display for rradio_messages::PipelineState
PipelineStateText(state) ==
    IF state = "Playing" THEN <<"P", "l", "a", "y", "i", "n", "g">> ELSE <<"N", "u", "l", "l">>

\* impl fmt::Display for ConcatenatedTrackTags: the tags that are present
\* and are not "unknown", joined by sep
RECURSIVE ConcatenatedTrackTags(_, _)
ConcatenatedTrackTags(sep, tags) ==
    IF tags = <<>> THEN <<>>
    ELSE LET rest == ConcatenatedTrackTags(sep, Tail(tags))
             tag == Head(tags)
         IN IF tag = None \/ tag[1] = <<"u", "n", "k", "n", "o", "w", "n">> THEN rest
            ELSE IF rest = <<>> THEN tag[1]
            ELSE tag[1] \o sep \o rest

\* impl fmt::Display for PingAndTemperatureDisplay
PingAndTemperatureText(d) ==
    CASE d.ping_times = "None" -> <<"N", "o", " ", "P", "i", "n", "g", " ", "T", "i", "m", "e", "s">>
      [] d.ping_times = "Gateway" -> <<"L", "P", "i", "n", "g", " ", " ", "1", ".", "0", "m", "s">>
      [] OTHER ->
            IF d.display_temperature
              THEN <<"C", "P", "U", " ", "T", "e", "m", "p", " ">> \o NatText(d.temperature) \o <<"C">>
              ELSE <<"L", "P", "i", "n", "g", " ", " ", "1", ".", "0", "m", "s">>

\* impl fmt::Display for PingDisplay
PingText(ping_times) ==
    IF ping_times = "None" THEN <<"N", "o", " ", "P", "i", "n", "g", " ", "T", "i", "m", "e", "s">> ELSE <<"G", "a", "t", "e", "w", "a", "y", ":", " ", "1", ".", "0", "m", "s">>

\* fn space_required_for_digits
SpaceRequiredForDigits(n) ==
    IF n <= 9 THEN 1 ELSE IF n <= 99 THEN 2 ELSE IF n <= 999 THEN 3 ELSE 4

\* OptionDurationDisplay::space_required
SpaceRequired(duration) ==
    IF duration = None THEN 1 ELSE SpaceRequiredForDigits(duration[1])

\* impl fmt::Display for OptionDurationDisplay
OptionDurationText(duration) ==
    IF duration = None THEN <<"?">> ELSE NatText(duration[1])

\* impl fmt::Display for TrackPositionDisplay
TrackPositionText(d) ==
    LET track_index_space_required == IF d.track_index < 10 THEN 1 ELSE 2
        total_space_required ==
            track_index_space_required + SpaceRequired(d.track_position)
                + SpaceRequired(d.track_duration)
        index == NatText(d.track_index)
        position == OptionDurationText(d.track_position)
        duration == OptionDurationText(d.track_duration)
    IN CASE total_space_required <= 7 ->
              index \o <<",", " ">> \o position \o <<" ", "o", "f", " ">> \o duration
         [] total_space_required = 8 ->
              index \o <<",">> \o position \o <<" ", "o", "f", " ">> \o duration
         [] total_space_required = 9 ->
              index \o <<",">> \o position \o <<"o", "f", " ">> \o duration
         [] total_space_required = 10 ->
              index \o <<",", " ">> \o position \o <<"o", "f">> \o duration
         [] OTHER -> index \o <<",", " ">> \o position

\* impl fmt::Display for StationNotFoundMessage
StationNotFoundText(index) == <<"N", "o", " ", "S", "t", "a", "t", "i", "o", "n", " ">> \o ArcStrText(index)

\* chrono::Local::now() at minute t of the day the program starts on,
\* formatted with "%a %d %b %Y" and with "%R"
DateText(t) == <<"T", "h", "u", " ", "0", "1", " ", "J", "a", "n", " ", "1", "9", "7", "0">>

TimeText(t) == <<"0", "0", ":", "0">> \o NatText(t)

\* T::to_string, by the type T of the data of a label
DisplayText(data_type, d) ==
    CASE data_type = "String" -> d
      [] data_type = "Integer" -> IntText(d)
      [] data_type = "PipelineState" -> PipelineStateText(d)
      [] data_type = "PingAndTemperatureDisplay" -> PingAndTemperatureText(d)
      [] data_type = "PingDisplay" -> PingText(d)
      [] data_type = "TrackPositionDisplay" -> TrackPositionText(d)
      [] data_type = "StationTags" -> ConcatenatedTrackTags(<<",", " ">>, d.tags)
      [] data_type = "StationNotFoundMessage" -> StationNotFoundText(d)
      [] data_type = "DateFormatter" -> DateText(d)
      [] OTHER -> TimeText(d)

----------------------------------------------------------------------------
(* Leaf widgets: widgets.rs.  A widget is a record of its struct's fields  *)
(* and its kind.  The data of a leaf is the text its Display gives (a      *)
(* String displays as itself), compared with PartialEq.                    *)

\* FixedLabel::new
FixedLabel(string, segment) ==
    [kind |-> "FixedLabel", string |-> string, segment |-> segment,
     should_paint |-> TRUE]

\* Label::new
Label(segment) ==
    [kind |-> "Label", needs_repainting |-> TRUE, segment |-> segment,
     text_alignment |-> "Left", data_type |-> "String"]

\* Label::<T>::new for a type T other than a text
LabelOf(data_type, segment) == [Label(segment) EXCEPT !.data_type = data_type]

\* GeneratedLabel::new
GeneratedLabel(segment, generator) ==
    [kind |-> "GeneratedLabel", segment |-> segment, generator |-> generator,
     previous_value |-> None]

\* Label::align_right
AlignRight(w) == [w EXCEPT !.text_alignment = "Right"]

\* format_args!("{:>width$.width$}", data) of a string: cut to width
\* characters, then padded on the left to width characters
RightAligned(text, width) ==
    LET t == Take(text, width) IN Spaces(width - Len(t)) \o t

WAIT_BEFORE_SCROLLING_TICKS_COUNT == 2
MAX_SCROLL == 6
CHARACTERS_REMAINING_RESET_COUNT == 6

\* ScrollingLabel::new
ScrollingLabel(segment) ==
    [kind |-> "ScrollingLabel", needs_repainting |-> TRUE, start_position |-> 0,
     wait_ticks_remaining |-> 0, segment |-> segment, text |-> None,
     data_type |-> "String"]

\* ScrollingLabel::<T>::new for a type T other than a text
ScrollingLabelOf(data_type, segment) ==
    [ScrollingLabel(segment) EXCEPT !.data_type = data_type]

\* ScrollingLabel::generate_text: text.get_or_insert_with(|| data.to_string()),
\* given the text that data.to_string() yields
GenerateText(text, d) == IF text = None THEN Some(d) ELSE text

\* the mutant of ResetScroll that leaves the start offset where it is
ResetScrollKeepsStart(w) ==
    [w EXCEPT !.needs_repainting = TRUE,
              !.wait_ticks_remaining = WAIT_BEFORE_SCROLLING_TICKS_COUNT]

\* the mutant of ResetScroll that does not reload the wait counter
ResetScrollNoWait(w) ==
    [w EXCEPT !.needs_repainting = TRUE, !.start_position = 0]

\* ScrollingLabel::reset_scroll
ResetScroll(w) ==
    [w EXCEPT !.needs_repainting = TRUE,
              !.start_position = 0,
              !.wait_ticks_remaining = WAIT_BEFORE_SCROLLING_TICKS_COUNT]

MinOf(S) == CHOOSE n \in S : \A m \in S : n <= m

\* the index (from 0) at which skip_while stops: the first character that
\* is whitespace or has MAX_SCROLL - 1 characters before it
SkipWhileStop(visible_text) ==
    LET stops == {n \in 0..(Len(visible_text) - 1) :
                    ~(n < MAX_SCROLL - 1 /\ ~IsWhitespace(visible_text[n + 1]))}
    IN IF stops = {} THEN Len(visible_text) ELSE MinOf(stops)

\* the mutant of FindNextStart that finds the character the remainder
\* starts with
FindNextStartStays(visible_text) == Some(0)

\* the mutant of FindNextStart that takes the character after the stop,
\* whitespace or not
FindNextStartAny(visible_text) ==
    IF SkipWhileStop(visible_text) + 1 <= Len(visible_text) - 1
      THEN Some(SkipWhileStop(visible_text) + 1) ELSE None

\* char_indices().enumerate().skip_while(..).skip(1).find(..): the index
\* of the character found, if any
FindNextStart(visible_text) ==
    LET found == {n \in (SkipWhileStop(visible_text) + 1)..(Len(visible_text) - 1) :
                    ~IsWhitespace(visible_text[n + 1])}
    IN IF found = {} THEN None ELSE Some(MinOf(found))

\* the mutant of TextFits for which no text fits
TextNeverFits(w, text) == FALSE

\* update_scroll: text.chars().count() <= self.segment.length.into()
TextFits(w, text) == Len(text) <= w.segment.length

\* the mutant of RemainderIsShort that compares with <
RemainderIsShorter(visible_text) ==
    Len(visible_text) < CHARACTERS_REMAINING_RESET_COUNT

\* update_scroll: visible_text.chars().count() <= CHARACTERS_REMAINING_RESET_COUNT
RemainderIsShort(visible_text) ==
    Len(visible_text) <= CHARACTERS_REMAINING_RESET_COUNT

\* ScrollingLabel::update_scroll
UpdateScroll(w, d) ==
    LET w1 == [w EXCEPT !.text = GenerateText(w.text, DisplayText(w.data_type, d))]
        text == w1.text[1]
        visible_text == Drop(text, w1.start_position)
        w2 == [w1 EXCEPT !.needs_repainting = TRUE]
        found == FindNextStart(visible_text)
    IN IF TextFits(w1, text) THEN w1
       ELSE IF w1.wait_ticks_remaining > 0
         THEN [w1 EXCEPT !.wait_ticks_remaining = @ - 1]
       ELSE IF RemainderIsShort(visible_text)
         THEN ResetScroll(w2)
       ELSE IF found # None
         THEN [w2 EXCEPT !.start_position = @ + found[1]]
       ELSE ResetScroll(w2)

\* the mutant of ScrollingForceRepaint that keeps the cached text
ScrollingForceRepaintKeepsText(w) == ResetScroll(w)

\* impl Widget for ScrollingLabel: force_repaint
ScrollingForceRepaint(w) == ResetScroll([w EXCEPT !.text = None])

----------------------------------------------------------------------------
(* Combinators: widgets.rs.  The data of an EitherWidget is               *)
(* [tag, val]: Either::A(val) or Either::B(val).                          *)

EitherA(val) == [tag |-> "A", val |-> val]
EitherB(val) == [tag |-> "B", val |-> val]

\* EitherWidget::new
EitherWidget(a, b) == [kind |-> "EitherWidget", a |-> a, b |-> b]

\* WidgetExt::group
WidgetGroup(w0, w1) == [kind |-> "WidgetGroup", w0 |-> w0, w1 |-> w1]

\* WidgetExt::with_lens
LensWidget(inner, lens) == [kind |-> "LensWidget", lens |-> lens, inner |-> inner]

\* FunctionScope::new and WidgetExt::with_scope
ScopeWidget(inner, scope, scope_data) ==
    [kind |-> "ScopeWidget", scope |-> scope, initial_data |-> scope_data,
     data |-> scope_data, inner |-> inner]

\* usize::saturating_sub
SaturatingSub(a, b) == IF a >= b THEN a - b ELSE 0

\* fn displayed_url_list_track_index
DisplayedUrlListTrackIndex(station, state) ==
    IF station.tracks = <<>> THEN None
    ELSE LET track_index_offset == IF station.tracks[1].is_notification THEN 0 ELSE 1
             track_index == state.current_track_index + track_index_offset
         IN IF track_index > 1 THEN Some(track_index) ELSE None

\* current_tags.and_then(|tags| tags.<field>.clone()), given the field of
\* the tags when there are tags
TagOf(state, field) ==
    IF state.current_track_tags = None THEN None
    ELSE TrackTagsOf(state.current_track_tags[1])[field]

\* current_track.and_then(|track| track.<field>.clone())
TrackFieldOf(station, state, field) ==
    LET current_track == Get(station.tracks, state.current_track_index)
    IN IF current_track = None THEN None ELSE current_track[1][field]

\* the lens of station_tags: view.rs, station_view
StationTagsOf(station, state) ==
    LET station_title == OrElse(TagOf(state, "organisation"), station.title)
        artist == OrElse(TagOf(state, "artist"), TrackFieldOf(station, state, "artist"))
        album == OrElse(TagOf(state, "album"), TrackFieldOf(station, state, "album"))
        index == DisplayedUrlListTrackIndex(station, state)
    IN CASE station.source_type = "UrlList" ->
              [variant |-> "UrlList",
               tags |-> <<IF index = None THEN None ELSE Some(NatText(index[1])),
                          station_title>>]
         [] station.source_type = "Samba" ->
              [variant |-> "Samba", tags |-> <<station_title, artist, album>>]
         [] OTHER ->
              [variant |-> station.source_type, tags |-> <<artist, album>>]

\* the lens of track_title: view.rs, station_view
TrackTitleOf(station, state) ==
    LET title == UnwrapOrDefault(OrElse(TagOf(state, "title"),
                                        TrackFieldOf(station, state, "title")))
    IN IF station.source_type = "UrlList"
         THEN IF Len(title) > 20
                THEN EitherB(title)
                ELSE EitherA([title |-> title, buffering |-> state.buffering])
         ELSE EitherB(title)

\* the lenses of view.rs, by the widget they are given to
ApplyLens(lens, d) ==
    CASE lens = "app" ->
            IF d.current_station # None
              THEN EitherA([station |-> d.current_station[1], state |-> d])
              ELSE EitherB(d)
      [] lens = "new_station_index" -> UnwrapOrDefault(StationOf(d.val).index)
      [] lens = "new_station_title" -> UnwrapOrDefault(StationOf(d.val).title)
      [] lens = "track_position" ->
            LET tracks == StationOf(d.station.val).tracks
                offset == IF tracks # <<>>
                            THEN IF tracks[1].is_notification THEN 0 ELSE 1
                            ELSE 0
            IN [track_index |-> d.state.current_track_index + offset,
                track_position |-> d.state.track_position,
                track_duration |-> d.state.track_duration]
      [] lens = "ping_or_track_position" ->
            IF StationOf(d.station.val).source_type = "UrlList"
              THEN EitherA(d) ELSE EitherB(d)
      [] lens = "station_view.volume_and_pipeline_state" ->
            [volume |-> d.state.volume, state |-> d.state.pipeline_state]
      [] lens = "station_tags" -> StationTagsOf(StationOf(d.station.val), d.state)
      [] lens = "track_title" -> TrackTitleOf(StationOf(d.station.val), d.state)
      [] lens = "track_metadata" -> d.title
      [] lens = "buffer" -> d.buffering
      [] lens = "station_not_found" ->
            IF d.station_not_found # None
              THEN EitherA(d.station_not_found[1]) ELSE EitherB(<<>>)
      [] lens = "no_station.volume_and_pipeline_state" ->
            [volume |-> d.volume, state |-> d.pipeline_state]
      [] OTHER -> d.ping_times

\* the mutant of HandleEvent that does not count the tick
HandleEventNoCount(scope, scope_data, d) == scope_data

\* Scope::event of the FunctionScopes of view.rs: handle_event on a tick
HandleEvent(scope, scope_data, d) ==
    IF scope = "ping_and_temperature" THEN scope_data
    ELSE SaturatingSub(scope_data, 1)

\* the mutant of HandleUpdate in which a change of the volume outweighs a
\* change of the pipeline state
HandleUpdateVolumeWins(scope, scope_data, old_data, d) ==
    CASE scope = "volume_and_pipeline_state" ->
            LET hidden == IF old_data.state # d.state THEN 0 ELSE scope_data
            IN IF old_data.volume # d.volume THEN 2 ELSE hidden
      [] scope = "ping_and_temperature" ->
            IF old_data.state.ping_times # d.state.ping_times
              THEN ~scope_data ELSE scope_data
      [] OTHER ->
            IF old_data.station.ptr # d.station.ptr
              THEN new_station_tics ELSE scope_data

\* Scope::update of the FunctionScopes of view.rs: handle_update
HandleUpdate(scope, scope_data, old_data, d) ==
    CASE scope = "volume_and_pipeline_state" ->
            LET shown == IF old_data.volume # d.volume THEN 2 ELSE scope_data
            IN IF old_data.state # d.state THEN 0 ELSE shown
      [] scope = "ping_and_temperature" ->
            IF old_data.state.ping_times # d.state.ping_times
              THEN ~scope_data ELSE scope_data
      [] OTHER ->
            IF old_data.station.ptr # d.station.ptr
              THEN new_station_tics ELSE scope_data

\* Scope::data of the FunctionScopes of view.rs: produce_data
ProduceData(scope, scope_data, d) ==
    CASE scope = "volume_and_pipeline_state" ->
            IF scope_data > 0 \/ d.state = "Playing"
              THEN EitherA(d.volume) ELSE EitherB(d.state)
      [] scope = "ping_and_temperature" ->
            [ping_times |-> d.state.ping_times,
             temperature |-> d.state.temperature,
             display_temperature |-> scope_data]
      [] OTHER ->
            IF scope_data > 0 THEN EitherA(d.station) ELSE EitherB(d)

\* the generators of the GeneratedLabels of view.rs: the day and the
\* minute of chrono::Local::now()
Generate(generator) == IF generator = "DateFormatter" THEN now \div 1440 ELSE now

RECURSIVE Update(_, _, _)
RECURSIVE Event(_, _)
RECURSIVE ForceRepaint(_, _)

\* the mutant of ScopeEvent that forwards the event before the update
ScopeEventBeforeUpdate(w, d) ==
    LET old_combined_data == ProduceData(w.scope, w.data, d)
        scope_data == HandleEvent(w.scope, w.data, d)
        combined_data == ProduceData(w.scope, scope_data, d)
    IN [w EXCEPT !.data = scope_data,
                 !.inner = Update(Event(w.inner, combined_data),
                                  old_combined_data, combined_data)]

\* impl Widget for ScopeWidget: event
ScopeEvent(w, d) ==
    LET old_combined_data == ProduceData(w.scope, w.data, d)
        scope_data == HandleEvent(w.scope, w.data, d)
        combined_data == ProduceData(w.scope, scope_data, d)
    IN [w EXCEPT !.data = scope_data,
                 !.inner = Event(Update(w.inner, old_combined_data, combined_data),
                                 combined_data)]

\* the mutant of ScopeForceRepaint that keeps the private state
ScopeForceRepaintKeepsData(w, d) ==
    [w EXCEPT !.inner = ForceRepaint(w.inner, ProduceData(w.scope, w.data, d))]

\* impl Widget for ScopeWidget: force_repaint, with FunctionScope::reset
ScopeForceRepaint(w, d) ==
    [w EXCEPT !.data = w.initial_data,
              !.inner = ForceRepaint(w.inner,
                                     ProduceData(w.scope, w.initial_data, d))]

\* the mutant of EitherEvent that sends the event to both widgets
EitherEventBoth(w, d) ==
    [w EXCEPT !.a = Event(w.a, d.val), !.b = Event(w.b, d.val)]

\* impl Widget for EitherWidget: event
EitherEvent(w, d) ==
    IF d.tag = "A" THEN [w EXCEPT !.a = Event(w.a, d.val)]
                   ELSE [w EXCEPT !.b = Event(w.b, d.val)]

\* Widget::event, by the kind of the widget
Event(w, d) ==
    CASE w.kind = "ScrollingLabel" -> UpdateScroll(w, d)
      [] w.kind = "LensWidget" ->
            [w EXCEPT !.inner = Event(w.inner, ApplyLens(w.lens, d))]
      [] w.kind = "ScopeWidget" -> ScopeEvent(w, d)
      [] w.kind = "EitherWidget" -> EitherEvent(w, d)
      [] w.kind = "WidgetGroup" ->
            [w EXCEPT !.w0 = Event(w.w0, d), !.w1 = Event(w.w1, d)]
      [] OTHER -> w

\* Widget::force_repaint, by the kind of the widget
ForceRepaint(w, d) ==
    CASE w.kind = "FixedLabel" -> [w EXCEPT !.should_paint = TRUE]
      [] w.kind = "Label" -> [w EXCEPT !.needs_repainting = TRUE]
      [] w.kind = "ScrollingLabel" -> ScrollingForceRepaint(w)
      [] w.kind = "GeneratedLabel" -> [w EXCEPT !.previous_value = None]
      [] w.kind = "LensWidget" ->
            [w EXCEPT !.inner = ForceRepaint(w.inner, ApplyLens(w.lens, d))]
      [] w.kind = "ScopeWidget" -> ScopeForceRepaint(w, d)
      [] w.kind = "EitherWidget" ->
            IF d.tag = "A" THEN [w EXCEPT !.a = ForceRepaint(w.a, d.val)]
                           ELSE [w EXCEPT !.b = ForceRepaint(w.b, d.val)]
      [] w.kind = "WidgetGroup" ->
            [w EXCEPT !.w0 = ForceRepaint(w.w0, d), !.w1 = ForceRepaint(w.w1, d)]
      [] OTHER -> w

\* the mutant of EitherSwitch that leaves the newly active widget as it is
EitherSwitchNothing(w, d) == w

\* EitherWidget::update when the variant changed: force_repaint of the
\* newly active widget
EitherSwitch(w, d) ==
    IF d.tag = "A" THEN [w EXCEPT !.a = ForceRepaint(w.a, d.val)]
                   ELSE [w EXCEPT !.b = ForceRepaint(w.b, d.val)]

\* the mutant of LabelUpdate that marks the label whatever the data
LabelUpdateAlways(w, old_data, d) == [w EXCEPT !.needs_repainting = TRUE]

\* impl Widget for Label: update
LabelUpdate(w, old_data, d) ==
    IF old_data # d THEN [w EXCEPT !.needs_repainting = TRUE] ELSE w

\* Widget::update, by the kind of the widget
Update(w, old_data, d) ==
    CASE w.kind = "Label" -> LabelUpdate(w, old_data, d)
      [] w.kind = "LensWidget" ->
            [w EXCEPT !.inner = Update(w.inner, ApplyLens(w.lens, old_data),
                                       ApplyLens(w.lens, d))]
      [] w.kind = "ScopeWidget" ->
            LET old_combined_data == ProduceData(w.scope, w.data, old_data)
                scope_data == HandleUpdate(w.scope, w.data, old_data, d)
                combined_data == ProduceData(w.scope, scope_data, d)
            IN [w EXCEPT !.data = scope_data,
                         !.inner = Update(w.inner, old_combined_data, combined_data)]
      [] w.kind = "ScrollingLabel" ->
            IF old_data # d THEN ScrollingForceRepaint(w) ELSE w
      [] w.kind = "EitherWidget" ->
            IF old_data.tag = d.tag
              THEN IF d.tag = "A"
                     THEN [w EXCEPT !.a = Update(w.a, old_data.val, d.val)]
                     ELSE [w EXCEPT !.b = Update(w.b, old_data.val, d.val)]
              ELSE EitherSwitch(w, d)
      [] w.kind = "WidgetGroup" ->
            [w EXCEPT !.w0 = Update(w.w0, old_data, d),
                      !.w1 = Update(w.w1, old_data, d)]
      [] OTHER -> w

\* the text a Label writes, by its alignment
LabelText(w, d) ==
    IF w.text_alignment = "Left"
      THEN DisplayText(w.data_type, d)
      ELSE RightAligned(DisplayText(w.data_type, d), w.segment.length)

\* the mutant of LabelPaint that writes whether the label is dirty or not
LabelPaintAlways(w, d, dsp) ==
    [w |-> [w EXCEPT !.needs_repainting = FALSE],
     d |-> WriteTo(dsp, w.segment, LabelText(w, d))]

\* the mutant of LabelPaint that leaves the label dirty
LabelPaintStaysDirty(w, d, dsp) ==
    IF w.needs_repainting
      THEN [w |-> w, d |-> WriteTo(dsp, w.segment, LabelText(w, d))]
      ELSE [w |-> w, d |-> dsp]

\* impl Widget for Label: paint
LabelPaint(w, d, dsp) ==
    IF w.needs_repainting
      THEN [w |-> [w EXCEPT !.needs_repainting = FALSE],
            d |-> WriteTo(dsp, w.segment, LabelText(w, d))]
      ELSE [w |-> w, d |-> dsp]

\* the mutant of FixedLabelPaint that writes whether the label is dirty or not
FixedLabelPaintAlways(w, dsp) ==
    [w |-> [w EXCEPT !.should_paint = FALSE],
     d |-> WriteTo(dsp, w.segment, w.string)]

\* impl Widget for FixedLabel: paint
FixedLabelPaint(w, dsp) ==
    IF w.should_paint
      THEN [w |-> [w EXCEPT !.should_paint = FALSE],
            d |-> WriteTo(dsp, w.segment, w.string)]
      ELSE [w |-> w, d |-> dsp]

\* impl Widget for ScrollingLabel: paint
ScrollingPaint(w, d, dsp) ==
    IF w.needs_repainting
      THEN LET text == GenerateText(w.text, DisplayText(w.data_type, d))
           IN [w |-> [w EXCEPT !.needs_repainting = FALSE, !.text = text],
               d |-> WriteTo(dsp, w.segment, Drop(text[1], w.start_position))]
      ELSE [w |-> w, d |-> dsp]

\* impl Widget for GeneratedLabel: paint
GeneratedLabelPaint(w, dsp) ==
    LET new_value == Generate(w.generator)
    IN IF w.previous_value # Some(new_value)
         THEN [w |-> [w EXCEPT !.previous_value = Some(new_value)],
               d |-> WriteTo(dsp, w.segment, DisplayText(w.generator, new_value))]
         ELSE [w |-> w, d |-> dsp]

\* Widget::paint, by the kind of the widget: the widget and the writer after
RECURSIVE Paint(_, _, _)
Paint(w, d, dsp) ==
    CASE w.kind = "FixedLabel" -> FixedLabelPaint(w, dsp)
      [] w.kind = "GeneratedLabel" -> GeneratedLabelPaint(w, dsp)
      [] w.kind = "LensWidget" ->
            LET r == Paint(w.inner, ApplyLens(w.lens, d), dsp)
            IN [w |-> [w EXCEPT !.inner = r.w], d |-> r.d]
      [] w.kind = "ScopeWidget" ->
            LET r == Paint(w.inner, ProduceData(w.scope, w.data, d), dsp)
            IN [w |-> [w EXCEPT !.inner = r.w], d |-> r.d]
      [] w.kind = "Label" -> LabelPaint(w, d, dsp)
      [] w.kind = "ScrollingLabel" -> ScrollingPaint(w, d, dsp)
      [] w.kind = "EitherWidget" ->
            IF d.tag = "A"
              THEN LET r == Paint(w.a, d.val, dsp)
                   IN [w |-> [w EXCEPT !.a = r.w], d |-> r.d]
              ELSE LET r == Paint(w.b, d.val, dsp)
                   IN [w |-> [w EXCEPT !.b = r.w], d |-> r.d]
      [] w.kind = "WidgetGroup" ->
            LET r0 == Paint(w.w0, d, dsp)
                r1 == Paint(w.w1, d, r0.d)
            IN [w |-> [w EXCEPT !.w0 = r0.w, !.w1 = r1.w], d |-> r1.d]
      [] OTHER -> [w |-> w, d |-> dsp]

----------------------------------------------------------------------------
(* The specification of the writer: write_to is applied to inputs drawn    *)
(* from bounded sets, one call after the other on the same writer.         *)

NoWidget == [kind |-> "None"]

\* the event loop before do_run is called
NoLoop == [pc |-> "none"]

\* no connection is made
NoConnection ==
    [bytes |-> <<>>, position |-> 0, ending |-> "none", event_buffer |-> <<>>,
     error |-> <<>>]

SegmentLengths == (0..MaxSegLen) \cup {SCREEN_WIDTH + k : k \in 0..MaxSegLen}

\* segments that start at the beginning and near the end of a row
StartColumns == {0, SCREEN_WIDTH - 2, SCREEN_WIDTH - 1}

WriterSegments ==
    {Segment(CursorPosition(1, c), n) : c \in StartColumns, n \in SegmentLengths}

WriterItems == TextsUpTo(MaxItemLen)

InitWriter ==
    /\ view = NoWidget
    /\ data = [segment |-> EntireScreen, item |-> <<>>]
    /\ display = NewDisplay
    /\ grid = BlankGrid
    /\ calls = <<>>
    /\ op = "new"
    /\ pre = <<>>
    /\ since = 0
    /\ loop = NoLoop
    /\ now = 0
    /\ connection = NoConnection

DoWriteTo(segment, item) ==
    LET d == WriteTo(Writer(display), segment, item)
    IN /\ data' = [segment |-> segment, item |-> item]
       /\ display' = [segment |-> d.segment]
       /\ calls' = d.out
       /\ op' = "write_to"
       /\ UNCHANGED <<view, grid, pre, since, loop, now, connection>>

NextWriter == \E segment \in WriterSegments, item \in WriterItems : DoWriteTo(segment, item)

SpecWriter == InitWriter /\ [][NextWriter]_vars

----------------------------------------------------------------------------
(* Operations on a widget.  Each is one call of a Widget method on the    *)
(* widget `view` with the data bound to it, as the event loop makes them  *)
(* (lib.rs, do_run): event with the current data, update with the old and *)
(* the new data, force_repaint and paint with the current data.  op names *)
(* the call, and says whether an update changed the data and whether it   *)
(* changed the variant of Either data.                                    *)

Op(name, changed, switched, clean) ==
    [name |-> name, changed |-> changed, switched |-> switched, clean |-> clean]

\* whether a widget that an operation with data d reaches is dirty
RECURSIVE AnyDirty(_, _)
AnyDirty(w, d) ==
    CASE w.kind = "FixedLabel" -> w.should_paint
      [] w.kind = "Label" -> w.needs_repainting
      [] w.kind = "ScrollingLabel" -> w.needs_repainting
      [] w.kind = "GeneratedLabel" -> w.previous_value # Some(Generate(w.generator))
      [] w.kind = "LensWidget" -> AnyDirty(w.inner, ApplyLens(w.lens, d))
      [] w.kind = "ScopeWidget" -> AnyDirty(w.inner, ProduceData(w.scope, w.data, d))
      [] w.kind = "EitherWidget" ->
            IF d.tag = "A" THEN AnyDirty(w.a, d.val) ELSE AnyDirty(w.b, d.val)
      [] w.kind = "WidgetGroup" -> AnyDirty(w.w0, d) \/ AnyDirty(w.w1, d)
      [] OTHER -> FALSE

Snapshot == [view |-> view, grid |-> grid, op |-> op]

\* view.event(&WidgetEvent::Tick(current_time), &state)
DoEvent ==
    /\ view' = Event(view, data)
    /\ calls' = <<>>
    /\ op' = Op("event", FALSE, FALSE, ~AnyDirty(view, data))
    /\ pre' = Snapshot
    /\ UNCHANGED <<data, display, grid, loop, now, connection>>

\* view.update(&state, &new_state); state = new_state
DoUpdate(new_data) ==
    /\ view' = Update(view, data, new_data)
    /\ data' = new_data
    /\ calls' = <<>>
    /\ op' = Op("update", data # new_data,
                view.kind = "EitherWidget" /\ data.tag # new_data.tag,
                ~AnyDirty(view, new_data))
    /\ pre' = Snapshot
    /\ UNCHANGED <<display, grid, loop, now, connection>>

\* view.force_repaint(&state)
DoForceRepaint ==
    /\ view' = ForceRepaint(view, data)
    /\ calls' = <<>>
    /\ op' = Op("force_repaint", FALSE, FALSE, ~AnyDirty(view, data))
    /\ pre' = Snapshot
    /\ UNCHANGED <<data, display, grid, loop, now, connection>>

\* view.paint(&state, display)
DoPaint ==
    LET r == Paint(view, data, Writer(display))
    IN /\ view' = r.w
       /\ display' = [segment |-> r.d.segment]
       /\ calls' = r.d.out
       /\ grid' = GridAfter(grid, r.d.out)
       /\ op' = Op("paint", FALSE, FALSE, ~AnyDirty(view, data))
       /\ pre' = Snapshot
       /\ UNCHANGED <<data, loop, now, connection>>

----------------------------------------------------------------------------
(* The specification of a widget tree: an EitherWidget of a scrolling     *)
(* label and a group of a fixed label and a label, under every sequence   *)
(* of widget operations.  The group's segments are the two parts of a     *)
(* segment that runs over the end of a row.                               *)

TreeSegment == Segment(CursorPosition(0, SCREEN_WIDTH - 3), 4)

FixedString == <<"a">>

\* a text with a second word, longer than TreeSegment
LongText == <<"a", " ", "a", "a", "a", "a", "a", "a">>

Tree(right) ==
    LET parts == Split(TreeSegment, 2)
        label == IF right THEN AlignRight(Label(parts[2])) ELSE Label(parts[2])
    IN EitherWidget(ScrollingLabel(TreeSegment),
                    WidgetGroup(FixedLabel(FixedString, parts[1]), label))

TreeData ==
    {EitherA(t) : t \in TextsUpTo(MaxLabelLen) \cup {LongText}}
        \cup {EitherB(t) : t \in TextsUpTo(MaxLabelLen)}

InitWidgets ==
    /\ view \in {Tree(FALSE), Tree(TRUE)}
    /\ data \in TreeData
    /\ display = NewDisplay
    /\ grid = BlankGrid
    /\ calls = <<>>
    /\ op = Op("new", FALSE, FALSE, FALSE)
    /\ pre = [view |-> view, grid |-> grid, op |-> op]
    /\ since = 0
    /\ loop = NoLoop
    /\ now = 0
    /\ connection = NoConnection

NextWidgets ==
    \/ DoEvent /\ UNCHANGED <<since, now, connection>>
    \/ \E new_data \in TreeData : DoUpdate(new_data) /\ UNCHANGED <<since, now, connection>>
    \/ DoForceRepaint /\ UNCHANGED <<since, now, connection>>
    \/ DoPaint /\ UNCHANGED <<since, now, connection>>

SpecWidgets == InitWidgets /\ [][NextWidgets]_vars

----------------------------------------------------------------------------
(* The specification of a writer that is written to again and again:      *)
(* pre holds the segment and the item of the write_to call before the     *)
(* last one.                                                              *)

AgainSegments ==
    {Segment(CursorPosition(0, 0), 1),
     Segment(CursorPosition(1, SCREEN_WIDTH - 2), 2),
     Segment(CursorPosition(1, SCREEN_WIDTH - 1), 3),
     Segment(CursorPosition(SCREEN_HEIGHT - 1, 1), 0)}

AgainItems == {<<>>, <<"a">>, <<"a", " ", "a">>}

InitAgain ==
    /\ view = NoWidget
    /\ data = [segment |-> EntireScreen, item |-> <<>>]
    /\ display = NewDisplay
    /\ grid = BlankGrid
    /\ calls = <<>>
    /\ op = "new"
    /\ pre = [segment |-> EntireScreen, item |-> <<>>]
    /\ since = 0
    /\ loop = NoLoop
    /\ now = 0
    /\ connection = NoConnection

\* display.write_to(segment, item), on the writer as the calls before left it
WriteToAgain(segment, item) ==
    LET d == WriteTo(Writer(display), segment, item)
    IN /\ data' = [segment |-> segment, item |-> item]
       /\ display' = [segment |-> d.segment]
       /\ calls' = d.out
       /\ op' = "write_to"
       /\ pre' = data
       /\ since' = Min(since + 1, 2)
       /\ UNCHANGED <<view, grid, loop, now, connection>>

NextAgain == \E segment \in AgainSegments, item \in AgainItems : WriteToAgain(segment, item)

SpecAgain == InitAgain /\ [][NextAgain]_vars

----------------------------------------------------------------------------
(* The specification of the geometry: CursorPosition::offset and          *)
(* Segment::split, each called once on arguments drawn from the values of *)
(* their types.  data holds the arguments and view the outcome.           *)

\* rows on the grid, and a row that 8 bits can hold and the grid cannot
GeometryRows == {0, SCREEN_HEIGHT - 1, 250}

GeometryOffsets ==
    {0, 1, SCREEN_WIDTH - 1, SCREEN_WIDTH, SCREEN_WIDTH + 1, 2 * SCREEN_WIDTH,
     SCREEN_WIDTH * SCREEN_HEIGHT - 1, SCREEN_WIDTH * SCREEN_HEIGHT, 236, 237, 255}

OffsetArguments ==
    {[fn |-> "offset", position |-> CursorPosition(row, column), offset |-> offset] :
        row \in GeometryRows, column \in 0..(SCREEN_WIDTH - 1), offset \in GeometryOffsets}

SplitArguments ==
    {[fn |-> "split", segment |-> Segment(CursorPosition(row, column), length),
      offset |-> offset] :
        row \in GeometryRows, column \in {0, 1, SCREEN_WIDTH - 2, SCREEN_WIDTH - 1},
        length \in GeometryOffsets, offset \in GeometryOffsets}

InitGeometry ==
    /\ view = NoWidget
    /\ data \in OffsetArguments \cup SplitArguments
    /\ display = NewDisplay
    /\ grid = BlankGrid
    /\ calls = <<>>
    /\ op = "new"
    /\ pre = <<>>
    /\ since = 0
    /\ loop = NoLoop
    /\ now = 0
    /\ connection = NoConnection

\* position.offset(offset)
DoOffset ==
    /\ op = "new"
    /\ data.fn = "offset"
    /\ view' \in OffsetOutcomes(data.position, data.offset)
    /\ op' = "offset"
    /\ UNCHANGED <<data, display, grid, calls, pre, since, loop, now, connection>>

\* segment.split(offset)
DoSplit ==
    /\ op = "new"
    /\ data.fn = "split"
    /\ view' \in SplitOutcomes(data.segment, data.offset)
    /\ op' = "split"
    /\ UNCHANGED <<data, display, grid, calls, pre, since, loop, now, connection>>

NextGeometry == DoOffset \/ DoSplit

SpecGeometry == InitGeometry /\ [][NextGeometry]_vars

----------------------------------------------------------------------------
(* The specification of a fixed label: one FixedLabel under every         *)
(* sequence of widget operations.  since counts the paints since the      *)
(* label was constructed or last force-repainted, up to PaintCap.         *)

PaintCap == 2

FixedSegments ==
    {Segment(CursorPosition(1, column), n) : column \in {0, SCREEN_WIDTH - 2}, n \in {2, 4}}

FixedStrings == {<<"a">>, <<"a", "b", "c">>}

FixedData == 0..2

InitFixed ==
    /\ view \in {FixedLabel(string, segment) :
                    string \in FixedStrings, segment \in FixedSegments}
    /\ data \in FixedData
    /\ display = NewDisplay
    /\ grid = BlankGrid
    /\ calls = <<>>
    /\ op = Op("new", FALSE, FALSE, FALSE)
    /\ pre = [view |-> view, grid |-> grid, op |-> op]
    /\ since = 0
    /\ loop = NoLoop
    /\ now = 0
    /\ connection = NoConnection

FixedEvent == DoEvent /\ UNCHANGED <<since, now, connection>>

FixedUpdate == \E new_data \in FixedData : DoUpdate(new_data) /\ UNCHANGED <<since, now, connection>>

FixedForceRepaint == DoForceRepaint /\ since' = 0 /\ UNCHANGED <<now, connection>>

FixedPaint == DoPaint /\ since' = Min(since + 1, PaintCap) /\ UNCHANGED <<now, connection>>

NextFixed == FixedEvent \/ FixedUpdate \/ FixedForceRepaint \/ FixedPaint

SpecFixed == InitFixed /\ [][NextFixed]_vars

----------------------------------------------------------------------------
(* The specification of a scrolling label: one ScrollingLabel bound to a  *)
(* text, under every sequence of widget operations.  The device does not  *)
(* matter here and is left as it is.                                      *)

ScrollSegments ==
    {Segment(CursorPosition(1, 0), n) : n \in {2, CHARACTERS_REMAINING_RESET_COUNT}}

\* a text with a run of whitespace longer than MAX_SCROLL
GapText == <<"a", " ", " ", " ", " ", " ", " ", " ", "a">>

\* a word of MAX_SCROLL characters, a whitespace character, and a word
WordGapText == <<"a", "a", "a", "a", "a", "a", " ", "a">>

ScrollTexts == TextsUpTo(MaxTextLen) \cup {GapText, WordGapText}

\* the data after a change: a character more or a character less
TextEdits(text) ==
    {Append(text, c) : c \in IF Len(text) < MaxTextLen THEN Alphabet ELSE {}}
        \cup (IF text # <<>> THEN {Tail(text)} ELSE {})

\* ticks are counted up to the one after the one that follows the wait
SinceCap == WAIT_BEFORE_SCROLLING_TICKS_COUNT + 2

InitScroll ==
    /\ view \in {ScrollingLabel(segment) : segment \in ScrollSegments}
    /\ data \in ScrollTexts
    /\ display = NewDisplay
    /\ grid = BlankGrid
    /\ calls = <<>>
    /\ op = Op("new", FALSE, FALSE, FALSE)
    /\ pre = [view |-> view, grid |-> grid, op |-> op]
    /\ since = SinceCap
    /\ loop = NoLoop
    /\ now = 0
    /\ connection = NoConnection

ScrollEvent == DoEvent /\ since' = Min(since + 1, SinceCap) /\ UNCHANGED <<now, connection>>

ScrollUpdateSame == DoUpdate(data) /\ UNCHANGED <<since, now, connection>>

ScrollUpdateChanged == \E new_data \in TextEdits(data) : DoUpdate(new_data) /\ since' = 0 /\ UNCHANGED <<now, connection>>

ScrollForceRepaint == DoForceRepaint /\ since' = 0 /\ UNCHANGED <<now, connection>>

ScrollPaint ==
    LET r == Paint(view, data, Writer(display))
    IN /\ view' = r.w
       /\ display' = [segment |-> r.d.segment]
       /\ calls' = r.d.out
       /\ op' = Op("paint", FALSE, FALSE, ~AnyDirty(view, data))
       /\ pre' = Snapshot
       /\ UNCHANGED <<data, grid, since, loop, now, connection>>

\* a label that receives nothing but ticks: its text is longer than its
\* segment and stays as it is
InitTicks == InitScroll /\ Len(data) > view.segment.length

\* every second the event loop delivers a tick
SpecTicks == InitTicks /\ [][ScrollEvent]_vars /\ WF_vars(ScrollEvent)

NextScroll ==
    \/ ScrollEvent
    \/ ScrollUpdateSame
    \/ ScrollUpdateChanged
    \/ ScrollForceRepaint
    \/ ScrollPaint

SpecScroll == InitScroll /\ [][NextScroll]_vars

----------------------------------------------------------------------------
(* The player state: state.rs.  An Arc is [ptr, val]: the address of the   *)
(* allocation and the value in it.  A new allocation is made while the one *)
(* it replaces is still alive, so its address differs from that one's.     *)

\* rradio_messages::OptionDiff
NoChange == [kind |-> "NoChange", val |-> None]
ChangedToNone == [kind |-> "ChangedToNone", val |-> None]
ChangedToSome(x) == [kind |-> "ChangedToSome", val |-> Some(x)]

\* OptionDiff::into_option
IntoOption(diff_value) ==
    CASE diff_value.kind = "NoChange" -> None
      [] diff_value.kind = "ChangedToNone" -> Some(None)
      [] OTHER -> Some(diff_value.val)

\* OptionDiff::has_changed
HasChanged(diff_value) == diff_value.kind # "NoChange"

\* Arc::new, called while the Arc in `alive` (an Option) is held
ArcNew(alive, x) ==
    [ptr |-> IF alive = None THEN 0 ELSE 1 - alive[1].ptr, val |-> x]

\* the mutant of UpdateValue that takes no value from the diff
UpdateValueNever(current_value, diff_value) == current_value

\* fn update_value
UpdateValue(current_value, diff_value) ==
    IF diff_value # None THEN diff_value[1] ELSE current_value

\* fn update_option
UpdateOption(current_value, diff_value) ==
    UpdateValue(current_value, IntoOption(diff_value))

\* fn update_option_arc
UpdateOptionArc(current_value, diff_value) ==
    LET o == IntoOption(diff_value)
    IN UpdateValue(current_value,
                   IF o # None /\ o[1] # None
                     THEN Some(Some(ArcNew(current_value, o[1][1])))
                     ELSE o)

\* impl Default for PlayerState
DefaultPlayerState ==
    [pipeline_state |-> "Null",
     current_station |-> None,
     current_track_index |-> 0,
     current_track_tags |-> None,
     volume |-> -1,
     buffering |-> 0,
     track_duration |-> None,
     track_position |-> None,
     ping_times |-> "None",
     station_not_found |-> None,
     current_error |-> None,
     temperature |-> 255]

\* the mutant of HandleLogMessage for which every error is the current error
HandleLogMessageAsCurrent(self, message) ==
    [self EXCEPT !.station_not_found = None,
                 !.current_error = Some(ArcNew(self.current_error, message.error))]

\* PlayerState::handle_log_message
HandleLogMessage(self, message) ==
    IF message.error.kind = "StationNotFound"
      THEN [self EXCEPT !.station_not_found = Some(message.error.index)]
      ELSE [self EXCEPT !.current_error =
                            Some(ArcNew(self.current_error, message.error))]

\* PlayerState::with_new_temperature
WithNewTemperature(self, temperature) ==
    [self EXCEPT !.temperature = temperature]

\* the mutant of ClearErrors that keeps both errors
ClearErrorsNever(self, diff) == self

\* apply_diff: if let OptionDiff::ChangedToSome(_) = &diff.current_station
ClearErrors(self, diff) ==
    IF diff.current_station.kind = "ChangedToSome"
      THEN [self EXCEPT !.station_not_found = None, !.current_error = None]
      ELSE self

\* PlayerState::apply_diff
ApplyDiff(self, diff) ==
    LET s0 == ClearErrors(self, diff)
    IN [s0 EXCEPT
          !.pipeline_state = UpdateValue(@, diff.pipeline_state),
          !.current_station = UpdateOptionArc(@, diff.current_station),
          !.current_track_index = UpdateValue(@, diff.current_track_index),
          !.current_track_tags = UpdateOption(@, diff.current_track_tags),
          !.volume = UpdateValue(@, diff.volume),
          !.buffering = UpdateValue(@, diff.buffering),
          !.track_duration = UpdateOption(@, diff.track_duration),
          !.track_position = UpdateOption(@, diff.track_position),
          !.ping_times = UpdateValue(@, diff.ping_times)]

----------------------------------------------------------------------------
(* The event loop: lib.rs, do_run, from the first events.next() on.  The   *)
(* loop record holds the position of the loop (next: at events.next();     *)
(* paint: at view.paint; returned: do_run has returned `result`), the kind *)
(* of the item taken last, the calls the current iteration has made on the *)
(* root widget, the display and the temperature source, in order, and the  *)
(* number of items taken.  `data` is the local variable `state`.           *)

\* let mut view = widgets::PassThrough(view::app(ip_address))
RootView == [kind |-> "PassThrough"]

\* rradio_messages::VERSION, and a version that differs from it
VERSION == "v"
Versions == {VERSION, "w"}

\* a PlayerStateDiff that changes nothing
NoDiff ==
    [pipeline_state |-> None,
     current_station |-> NoChange,
     current_track_index |-> None,
     current_track_tags |-> NoChange,
     volume |-> None,
     buffering |-> None,
     track_duration |-> NoChange,
     track_position |-> NoChange,
     ping_times |-> None]

OptionDiffs(S) == {NoChange, ChangedToNone} \cup {ChangedToSome(x) : x \in S}

\* diffs of one field other than the station
FieldDiffs ==
    {NoDiff}
    \cup {[NoDiff EXCEPT !.pipeline_state = Some(x)] : x \in {"Null", "Playing"}}
    \cup {[NoDiff EXCEPT !.current_track_index = Some(x)] : x \in {0, 1}}
    \cup {[NoDiff EXCEPT !.current_track_tags = x] : x \in OptionDiffs({"tags"})}
    \cup {[NoDiff EXCEPT !.volume = Some(x)] : x \in {-1, 5}}
    \cup {[NoDiff EXCEPT !.buffering = Some(x)] : x \in {0, 50}}
    \cup {[NoDiff EXCEPT !.track_duration = x] : x \in OptionDiffs({60})}
    \cup {[NoDiff EXCEPT !.track_position = x] : x \in OptionDiffs({1})}
    \cup {[NoDiff EXCEPT !.ping_times = Some(x)] : x \in {"None", "Gateway"}}

\* the diffs the server sends: a field diff with any diff of the station
StateDiffs ==
    {[d EXCEPT !.current_station = x] : d \in FieldDiffs, x \in OptionDiffs({"station"})}

\* the values TemperatureSource::get_temperature returns
Temperatures == {40, 41}

\* rradio_messages::LogMessage
LogMessages ==
    {[kind |-> "Error", error |-> e] :
        e \in {[kind |-> "StationNotFound", index |-> "1"],
               [kind |-> "Other", index |-> ""]}}

InitLoop ==
    /\ view = RootView
    /\ data = DefaultPlayerState
    /\ display = NewDisplay
    /\ grid = BlankGrid
    /\ calls = <<>>
    /\ op = "do_run"
    /\ pre = <<>>
    /\ since = 0
    /\ loop = [pc |-> "next", item |-> "None", iter |-> <<>>, n |-> 0,
               result |-> "None"]
    /\ now = 0
    /\ connection = NoConnection

\* events.next().await yields an item: a new iteration starts
Taken(item) == [loop EXCEPT !.item = item, !.iter = <<>>, !.n = @ + 1]

CanTake == loop.pc = "next" /\ loop.n < MaxItems

\* Event::RradioEvent(Err(_)): rradio_event? returns the error
OnError ==
    /\ CanTake
    /\ loop' = [Taken("Err") EXCEPT !.pc = "returned", !.result = "Err"]
    /\ UNCHANGED <<view, data, display, grid, calls, op, pre, since, now>>

\* the mutant of OnProtocolVersion that accepts every version
OnProtocolVersionAny(version) ==
    /\ CanTake
    /\ loop' = [Taken("ProtocolVersion") EXCEPT !.pc = "next"]
    /\ UNCHANGED <<view, data, display, grid, calls, op, pre, since, now>>

\* rradio_messages::Event::ProtocolVersion
OnProtocolVersion(version) ==
    /\ CanTake
    /\ loop' = IF version # VERSION
                 THEN [Taken("ProtocolVersion") EXCEPT !.pc = "returned",
                                                        !.result = "Err"]
                 ELSE [Taken("ProtocolVersion") EXCEPT !.pc = "next"]
    /\ UNCHANGED <<view, data, display, grid, calls, op, pre, since, now>>

\* the mutant of OnPlayerStateChanged that samples the temperature for
\* every diff
OnPlayerStateChangedSamples(state_diff, temperature) ==
    LET should_clear_screen == HasChanged(state_diff.current_station)
        new_state == WithNewTemperature(ApplyDiff(data, state_diff), temperature)
        made == <<"get_temperature", "view.update">>
                \o (IF should_clear_screen
                      THEN <<"view.force_repaint", "display.clear">>
                      ELSE <<>>)
    IN /\ CanTake
       /\ data' = new_state
       /\ calls' = IF should_clear_screen THEN Clear(Writer(display)).out ELSE <<>>
       /\ grid' = GridAfter(grid, calls')
       /\ loop' = [Taken("PlayerStateChanged") EXCEPT !.pc = "paint",
                                                       !.iter = made]
       /\ UNCHANGED <<view, display, op, pre, since, now>>

\* rradio_messages::Event::PlayerStateChanged
OnPlayerStateChanged(state_diff, temperature) ==
    LET should_clear_screen == HasChanged(state_diff.current_station)
        should_update_temperature == state_diff.ping_times # None
        applied == ApplyDiff(data, state_diff)
        new_state == IF should_update_temperature
                       THEN WithNewTemperature(applied, temperature)
                       ELSE applied
        made == (IF should_update_temperature
                   THEN <<"get_temperature">> ELSE <<>>)
                \o <<"view.update">>
                \o (IF should_clear_screen
                      THEN <<"view.force_repaint", "display.clear">>
                      ELSE <<>>)
    IN /\ CanTake
       /\ data' = new_state
       /\ calls' = IF should_clear_screen THEN Clear(Writer(display)).out ELSE <<>>
       /\ grid' = GridAfter(grid, calls')
       /\ loop' = [Taken("PlayerStateChanged") EXCEPT !.pc = "paint",
                                                       !.iter = made]
       /\ UNCHANGED <<view, display, op, pre, since, now>>

\* the mutant of OnLogMessage that returns the error
OnLogMessageFatal(message) ==
    /\ CanTake
    /\ loop' = [Taken("LogMessage") EXCEPT !.pc = "returned", !.result = "Err"]
    /\ UNCHANGED <<view, data, display, grid, calls, op, pre, since, now>>

\* rradio_messages::Event::LogMessage
OnLogMessage(message) ==
    /\ CanTake
    /\ data' = HandleLogMessage(data, message)
    /\ loop' = [Taken("LogMessage") EXCEPT !.pc = "paint",
                                           !.iter = <<"view.update">>]
    /\ calls' = <<>>
    /\ UNCHANGED <<view, display, grid, op, pre, since, now>>

\* the mutant of OnTickEvent that goes on to the next item at once
OnTickEventNoPaint ==
    /\ CanTake
    /\ loop' = [Taken("TickEvent") EXCEPT !.pc = "next",
                                          !.iter = <<"view.event">>]
    /\ calls' = <<>>
    /\ UNCHANGED <<view, data, display, grid, op, pre, since, now>>

\* Event::TickEvent
OnTickEvent ==
    /\ CanTake
    /\ loop' = [Taken("TickEvent") EXCEPT !.pc = "paint",
                                          !.iter = <<"view.event">>]
    /\ calls' = <<>>
    /\ UNCHANGED <<view, data, display, grid, op, pre, since, now>>

\* the mutant of OnDone that goes on to the paint pass and the next item
OnDoneGoesOn ==
    /\ CanTake
    /\ loop' = [Taken("Done") EXCEPT !.pc = "paint"]
    /\ UNCHANGED <<view, data, display, grid, calls, op, pre, since, now>>

\* Event::Done => break, then Ok(())
OnDone ==
    /\ CanTake
    /\ loop' = [Taken("Done") EXCEPT !.pc = "returned", !.result = "Ok"]
    /\ UNCHANGED <<view, data, display, grid, calls, op, pre, since, now>>

\* view.paint(&state, display), the last statement of the loop body
PaintPass ==
    /\ loop.pc = "paint"
    /\ loop' = [loop EXCEPT !.pc = "next", !.iter = Append(@, "view.paint")]
    /\ UNCHANGED <<view, data, display, grid, calls, op, pre, since, now>>

NextLoop ==
    \/ OnError /\ UNCHANGED connection
    \/ \E version \in Versions : OnProtocolVersion(version) /\ UNCHANGED connection
    \/ \E state_diff \in StateDiffs, temperature \in Temperatures :
          OnPlayerStateChanged(state_diff, temperature) /\ UNCHANGED connection
    \/ \E message \in LogMessages : OnLogMessage(message) /\ UNCHANGED connection
    \/ OnTickEvent /\ UNCHANGED connection
    \/ OnDone /\ UNCHANGED connection
    \/ PaintPass /\ UNCHANGED connection

SpecLoop == InitLoop /\ [][NextLoop]_vars

----------------------------------------------------------------------------
(* The specification of the player state: apply_diff, handle_log_message   *)
(* and with_new_temperature, each applied once to a state the program can  *)
(* be in.  `pre` is the state before the call, `data` the state it         *)
(* returns, and op the call with its argument.                             *)

DiffFields ==
    {"pipeline_state", "current_station", "current_track_index",
     "current_track_tags", "volume", "buffering", "track_duration",
     "track_position", "ping_times"}

\* the fields of a PlayerStateDiff that are an OptionDiff
OptionDiffFields ==
    {"current_station", "current_track_tags", "track_duration", "track_position"}

\* the value of field f in a diff that does not specify it
Unspecified(f) == IF f \in OptionDiffFields THEN NoChange ELSE None

\* the two ways a diff specifies field f
Specified(f, i) ==
    CASE f = "pipeline_state" -> Some(IF i = 1 THEN "Null" ELSE "Playing")
      [] f = "current_station" ->
            IF i = 1 THEN ChangedToNone ELSE ChangedToSome("station")
      [] f = "current_track_index" -> Some(IF i = 1 THEN 0 ELSE 1)
      [] f = "current_track_tags" ->
            IF i = 1 THEN ChangedToNone ELSE ChangedToSome("tags")
      [] f = "volume" -> Some(IF i = 1 THEN -1 ELSE 5)
      [] f = "buffering" -> Some(IF i = 1 THEN 0 ELSE 50)
      [] f = "track_duration" ->
            IF i = 1 THEN ChangedToNone ELSE ChangedToSome(60)
      [] f = "track_position" ->
            IF i = 1 THEN ChangedToNone ELSE ChangedToSome(1)
      [] OTHER -> Some(IF i = 1 THEN "None" ELSE "Gateway")

\* the diffs that specify the fields F
DiffsOf(F) ==
    {[f \in DiffFields |-> IF f \in F THEN Specified(f, g[f]) ELSE Unspecified(f)] :
        g \in [F -> {1, 2}]}

\* the diffs that specify at most n fields
DiffsUpTo(n) ==
    UNION {DiffsOf(F) : F \in {G \in SUBSET DiffFields : Cardinality(G) <= n}}

\* a diff that specifies every field
FullDiff == [f \in DiffFields |-> Specified(f, 2)]

StationNotFoundMessage ==
    [kind |-> "Error", error |-> [kind |-> "StationNotFound", index |-> "1"]]

OtherErrorMessage ==
    [kind |-> "Error", error |-> [kind |-> "Other", index |-> ""]]

\* states the program reaches: the default state, a station playing, and
\* both kinds of error reported with and without a station
Playing == WithNewTemperature(ApplyDiff(DefaultPlayerState, FullDiff), 40)

Failed(self) ==
    HandleLogMessage(HandleLogMessage(self, StationNotFoundMessage), OtherErrorMessage)

SampleStates == {DefaultPlayerState, Playing, Failed(DefaultPlayerState), Failed(Playing)}

Call(name, arg) == [name |-> name, arg |-> arg]

InitState ==
    /\ view = NoWidget
    /\ data \in SampleStates
    /\ display = NewDisplay
    /\ grid = BlankGrid
    /\ calls = <<>>
    /\ op = Call("new", <<>>)
    /\ pre = data
    /\ since = 0
    /\ loop = NoLoop
    /\ now = 0
    /\ connection = NoConnection

\* state.clone().apply_diff(state_diff)
StateApplyDiff(diff) ==
    /\ op.name = "new"
    /\ data' = ApplyDiff(data, diff)
    /\ pre' = data
    /\ op' = Call("apply_diff", diff)
    /\ UNCHANGED <<view, display, grid, calls, since, loop, now, connection>>

\* state.clone().handle_log_message(message)
StateHandleLogMessage(message) ==
    /\ op.name = "new"
    /\ data' = HandleLogMessage(data, message)
    /\ pre' = data
    /\ op' = Call("handle_log_message", message)
    /\ UNCHANGED <<view, display, grid, calls, since, loop, now, connection>>

\* new_state.with_new_temperature(temperature_source.get_temperature())
StateWithNewTemperature(temperature) ==
    /\ op.name = "new"
    /\ data' = WithNewTemperature(data, temperature)
    /\ pre' = data
    /\ op' = Call("with_new_temperature", temperature)
    /\ UNCHANGED <<view, display, grid, calls, since, loop, now, connection>>

NextState ==
    \/ \E diff \in DiffsUpTo(MaxDiffFields) : StateApplyDiff(diff)
    \/ \E message \in LogMessages : StateHandleLogMessage(message)
    \/ \E temperature \in Temperatures : StateWithNewTemperature(temperature)

SpecState == InitState /\ [][NextState]_vars

----------------------------------------------------------------------------
(* The view: view.rs.  The widget tree app() builds, and the event loop    *)
(* of do_run run on it: each action is one iteration of the loop, from the *)
(* item events.next() yields to view.paint.  `calls` holds the device      *)
(* calls of the iteration and `grid` what the device shows after it.       *)

\* fn volume_and_pipeline_state_view
VolumeAndPipelineStateView(segment) ==
    LET parts == Split(segment, 4)
        volume == WidgetGroup(FixedLabel(<<"V", "o", "l">>, parts[1]),
                              AlignRight(LabelOf("Integer", parts[2])))
        pipeline_state == AlignRight(LabelOf("PipelineState", segment))
    IN ScopeWidget(EitherWidget(volume, pipeline_state),
                   "volume_and_pipeline_state", 0)

\* fn station_view
StationView ==
    LET parts == Split(Line(0), 13)
        ping_segment == parts[1]
        volume_and_pipeline_state_segment == parts[2]
        ping_and_temperature ==
            ScopeWidget(LabelOf("PingAndTemperatureDisplay", ping_segment),
                        "ping_and_temperature", FALSE)
        track_position ==
            LensWidget(LabelOf("TrackPositionDisplay", ping_segment), "track_position")
        ping_or_track_position ==
            LensWidget(EitherWidget(ping_and_temperature, track_position),
                       "ping_or_track_position")
        volume_and_pipeline_state ==
            LensWidget(VolumeAndPipelineStateView(volume_and_pipeline_state_segment),
                       "station_view.volume_and_pipeline_state")
        station_tags ==
            LensWidget(ScrollingLabelOf("StationTags", Line(1)), "station_tags")
        track_metadata == LensWidget(ScrollingLabel(Line(2)), "track_metadata")
        buffer == LensWidget(LabelOf("Integer", Line(3)), "buffer")
        track_title ==
            LensWidget(EitherWidget(WidgetGroup(track_metadata, buffer),
                                    ScrollingLabel(Lines(2, 3))),
                       "track_title")
    IN WidgetGroup(WidgetGroup(WidgetGroup(ping_or_track_position,
                                           volume_and_pipeline_state),
                               station_tags),
                   track_title)

\* fn no_station
NoStation(ip_address) ==
    LET parts == Split(Line(0), 13)
        station_not_found_segment == parts[1]
        volume_and_pipeline_state_segment == parts[2]
        local_ip == FixedLabel(ip_address, station_not_found_segment)
        station_not_found ==
            LensWidget(EitherWidget(ScrollingLabelOf("StationNotFoundMessage",
                                                     station_not_found_segment),
                                    local_ip),
                       "station_not_found")
        volume_and_pipeline_state ==
            LensWidget(VolumeAndPipelineStateView(volume_and_pipeline_state_segment),
                       "no_station.volume_and_pipeline_state")
        ping == LensWidget(LabelOf("PingDisplay", Line(1)), "ping")
        clock_date == GeneratedLabel(Line(2), "DateFormatter")
        clock_time_segment == Split(Line(3), 5)[1]
        clock_time == GeneratedLabel(clock_time_segment, "TimeFormatter")
    IN WidgetGroup(WidgetGroup(WidgetGroup(WidgetGroup(station_not_found,
                                                       volume_and_pipeline_state),
                                           ping),
                               clock_date),
                   clock_time)

\* pub fn app: station_view, the new station's index and title for
\* new_station_tics ticks and then the view of the station
NewStationView ==
    LET new_station_index == LensWidget(Label(Line(0)), "new_station_index")
        new_station_title == LensWidget(Label(Line(1)), "new_station_title")
    IN ScopeWidget(EitherWidget(WidgetGroup(new_station_index, new_station_title),
                                StationView),
                   "station_view", new_station_tics)

\* pub fn app
App(ip_address) ==
    LensWidget(EitherWidget(NewStationView, NoStation(ip_address)), "app")

\* the address terminal_driver passes to app::run
MockIp == <<"M", "O", "C", "K", " ", "I", "P">>

\* the last minute the clock of the model reaches
MaxNow == 1

\* the number of items the event loop takes
MaxIterations == 5

\* the diffs the server sends to the view: one field each
AppDiffs ==
    {[NoDiff EXCEPT !.current_station = ChangedToSome("station")],
     [NoDiff EXCEPT !.current_station = ChangedToNone],
     [NoDiff EXCEPT !.volume = Some(5)]}

\* ticks are counted up to the one after the two that a banner or the
\* volume stays for
TickCap == 3

InitApp ==
    /\ view = App(MockIp)
    /\ data = DefaultPlayerState
    /\ display = NewDisplay
    /\ grid = BlankGrid
    /\ calls = <<>>
    /\ op = Call("do_run", <<>>)
    /\ pre = data
    /\ since = TickCap
    /\ loop = [pc |-> "next", item |-> "None", iter |-> <<>>, n |-> 0,
               result |-> "None"]
    /\ now = 0
    /\ connection = NoConnection

\* view.paint(&state, display) after the handler of an item has left the
\* view v, the state new_state and made the device calls of writer dsp
Iteration(name, arg, v, new_state, dsp) ==
    LET r == Paint(v, new_state, dsp)
    IN /\ loop.n < MaxIterations
       /\ view' = r.w
       /\ data' = new_state
       /\ display' = [segment |-> r.d.segment]
       /\ calls' = r.d.out
       /\ grid' = GridAfter(grid, r.d.out)
       /\ op' = Call(name, arg)
       /\ pre' = data
       /\ loop' = [loop EXCEPT !.item = name, !.n = @ + 1]
       /\ since' = IF name = "TickEvent" THEN Min(since + 1, TickCap)
                   ELSE IF /\ name = "PlayerStateChanged"
                           /\ HasChanged(arg.current_station)
                           /\ new_state.current_station # None
                     THEN 0
                   ELSE since
       /\ UNCHANGED <<now, connection>>

\* the mutant of AppPlayerStateChanged that leaves the display as it is
\* when the station changes
AppPlayerStateChangedNoClear(state_diff, temperature) ==
    LET should_clear_screen == HasChanged(state_diff.current_station)
        should_update_temperature == state_diff.ping_times # None
        applied == ApplyDiff(data, state_diff)
        new_state == IF should_update_temperature
                       THEN WithNewTemperature(applied, temperature)
                       ELSE applied
        updated == Update(view, data, new_state)
    IN IF should_clear_screen
         THEN Iteration("PlayerStateChanged", state_diff,
                        ForceRepaint(updated, new_state), new_state,
                        Writer(display))
         ELSE Iteration("PlayerStateChanged", state_diff, updated, new_state,
                        Writer(display))

\* rradio_messages::Event::PlayerStateChanged, then view.paint
AppPlayerStateChanged(state_diff, temperature) ==
    LET should_clear_screen == HasChanged(state_diff.current_station)
        should_update_temperature == state_diff.ping_times # None
        applied == ApplyDiff(data, state_diff)
        new_state == IF should_update_temperature
                       THEN WithNewTemperature(applied, temperature)
                       ELSE applied
        updated == Update(view, data, new_state)
    IN IF should_clear_screen
         THEN Iteration("PlayerStateChanged", state_diff,
                        ForceRepaint(updated, new_state), new_state,
                        Clear(Writer(display)))
         ELSE Iteration("PlayerStateChanged", state_diff, updated, new_state,
                        Writer(display))

\* rradio_messages::Event::LogMessage, then view.paint
AppLogMessage(message) ==
    LET new_state == HandleLogMessage(data, message)
    IN Iteration("LogMessage", message, Update(view, data, new_state), new_state,
                 Writer(display))

\* Event::TickEvent, then view.paint
AppTickEvent ==
    Iteration("TickEvent", <<>>, Event(view, data), data, Writer(display))

\* a minute of chrono::Local::now() passes
ClockAdvances ==
    /\ now < MaxNow
    /\ now' = now + 1
    /\ UNCHANGED <<view, data, display, grid, calls, op, pre, since, loop, connection>>

NextApp ==
    \/ \E state_diff \in AppDiffs : AppPlayerStateChanged(state_diff, 40)
    \/ \E message \in LogMessages : AppLogMessage(message)
    \/ AppTickEvent
    \/ ClockAdvances

SpecApp == InitApp /\ [][NextApp]_vars

----------------------------------------------------------------------------
(* The specification of the region of the volume and the pipeline state:  *)
(* the widget of volume_and_pipeline_state_view as do_run drives it.  A    *)
(* tick is event then paint; a diff is update, then force_repaint and a   *)
(* clear of the display when the diff changes the station, then paint.    *)
(* since counts the ticks since the last update that changed the volume   *)
(* and not the pipeline state, up to TickCap, and is TickCap when the      *)
(* pipeline state has changed since; op.cleared says that the view has    *)
(* been force-repainted with or since that update.                        *)

VolumeSegment == Split(Line(0), 13)[2]

VolumeData ==
    {[volume |-> volume, state |-> state] :
        volume \in {5, 6}, state \in {"Null", "Paused", "Playing"}}

InitVolume ==
    /\ view = VolumeAndPipelineStateView(VolumeSegment)
    /\ data \in VolumeData
    /\ display = NewDisplay
    /\ grid = BlankGrid
    /\ calls = <<>>
    /\ op = [name |-> "new", cleared |-> FALSE]
    /\ pre = [data |-> data, op |-> op]
    /\ since = TickCap
    /\ loop = NoLoop
    /\ now = 0
    /\ connection = NoConnection

\* Event::TickEvent: view.event, then view.paint
VolumeTick ==
    LET r == Paint(Event(view, data), data, Writer(display))
    IN /\ view' = r.w
       /\ display' = [segment |-> r.d.segment]
       /\ calls' = r.d.out
       /\ grid' = GridAfter(grid, r.d.out)
       /\ op' = [name |-> "TickEvent", cleared |-> op.cleared]
       /\ pre' = [data |-> data, op |-> op]
       /\ since' = Min(since + 1, TickCap)
       /\ UNCHANGED <<data, loop, now, connection>>

\* PlayerStateChanged: view.update; view.force_repaint and display.clear
\* if the diff changes the station; then view.paint
VolumeChanged(new_data, should_clear_screen) ==
    LET updated == Update(view, data, new_data)
        volume_only == data.volume # new_data.volume /\ data.state = new_data.state
        r == IF should_clear_screen
               THEN Paint(ForceRepaint(updated, new_data), new_data,
                          Clear(Writer(display)))
               ELSE Paint(updated, new_data, Writer(display))
    IN /\ view' = r.w
       /\ data' = new_data
       /\ display' = [segment |-> r.d.segment]
       /\ calls' = r.d.out
       /\ grid' = GridAfter(grid, r.d.out)
       /\ op' = [name |-> "PlayerStateChanged",
                 cleared |-> IF volume_only THEN should_clear_screen
                             ELSE op.cleared \/ should_clear_screen]
       /\ pre' = [data |-> data, op |-> op]
       /\ since' = IF data.state # new_data.state THEN TickCap
                   ELSE IF volume_only THEN 0 ELSE since
       /\ UNCHANGED <<loop, now, connection>>

NextVolume ==
    \/ VolumeTick
    \/ \E new_data \in VolumeData, should_clear_screen \in BOOLEAN :
          VolumeChanged(new_data, should_clear_screen)

SpecVolume == InitVolume /\ [][NextVolume]_vars

----------------------------------------------------------------------------
(* The specification of a ScopeWidget: the station_view of app(), bound to *)
(* a station and a PlayerState, under every sequence of widget operations. *)

\* a PlayerState that plays the track of a station held at the address ptr
StationState(ptr, current_track_index) ==
    [DefaultPlayerState EXCEPT
        !.current_station = Some([ptr |-> ptr, val |-> "long"]),
        !.current_track_index = current_track_index]

\* the data of station_view: the station and the PlayerState the lens of
\* app() gives it
ScopeData ==
    {ApplyLens("app", StationState(ptr, 0)).val : ptr \in {0, 1}}

InitScope ==
    /\ view = NewStationView
    /\ data \in ScopeData
    /\ display = NewDisplay
    /\ grid = BlankGrid
    /\ calls = <<>>
    /\ op = Op("new", FALSE, FALSE, FALSE)
    /\ pre = [view |-> view, grid |-> grid, op |-> op]
    /\ since = 0
    /\ loop = NoLoop
    /\ now = 0
    /\ connection = NoConnection

NextScope ==
    \/ DoEvent /\ UNCHANGED <<since, now, connection>>
    \/ \E new_data \in ScopeData : DoUpdate(new_data) /\ UNCHANGED <<since, now, connection>>
    \/ DoForceRepaint /\ UNCHANGED <<since, now, connection>>
    \/ DoPaint /\ UNCHANGED <<since, now, connection>>

SpecScope == InitScope /\ [][NextScope]_vars

----------------------------------------------------------------------------
(* do_run from its first statement: lib.rs.  The connect loop and the      *)
(* fallback screen that runs beside it, then the event loop fed by the     *)
(* TCP connection.  `connection` is [bytes, position, ending,              *)
(* event_buffer, error]: the bytes the remote sends before the stream      *)
(* ends, the number of them already read, how the stream ends (eof: the    *)
(* remote closes it; reset: the read fails with another io error), the     *)
(* payload read last, and the error the stream of events has yielded, as   *)
(* its context and its source.  The loop record also holds the outcomes of *)
(* the connection attempts and whether the fallback screen has been        *)
(* started.                                                                *)

\* size_of::<rradio_messages::MsgPackBufferLength>(), a u16
PrefixSize == 2

\* MsgPackBufferLength::from_be_bytes
RECURSIVE FromBeBytes(_)
FromBeBytes(bs) ==
    IF bs = <<>> THEN 0
    ELSE FromBeBytes(SubSeq(bs, 1, Len(bs) - 1)) * 256 + bs[Len(bs)]

\* AsyncReadExt::read_exact of n bytes: the bytes, or UnexpectedEof when the
\* stream ends before n bytes have come, or the io error the stream ends with
ReadExact(c, n) ==
    LET unread == Drop(c.bytes, c.position)
    IN IF Len(unread) >= n
         THEN [result |-> "Ok", buf |-> Take(unread, n),
               connection |-> [c EXCEPT !.position = @ + n]]
         ELSE [result |-> IF c.ending = "eof" THEN "UnexpectedEof"
                                              ELSE "ConnectionReset",
               buf |-> <<>>,
               connection |-> [c EXCEPT !.position = Len(c.bytes)]]

\* rradio_messages::Event
ProtocolVersionEvent(version) == [kind |-> "ProtocolVersion", version |-> version]
LogMessageEvent(message) == [kind |-> "LogMessage", message |-> message]
PlayerStateChangedEvent(diff) == [kind |-> "PlayerStateChanged", diff |-> diff]

\* rmp_serde::from_read_ref: the event a payload encodes, None when the
\* payload is not the encoding of an event
Decode(event_buffer) ==
    CASE event_buffer = <<1>> -> Some(ProtocolVersionEvent(VERSION))
      [] event_buffer = <<2>> -> Some(LogMessageEvent(OtherErrorMessage))
      [] event_buffer = <<1, 1>> -> Some(ProtocolVersionEvent("w"))
      [] event_buffer = <<2, 2>> ->
            Some(PlayerStateChangedEvent([NoDiff EXCEPT !.volume = Some(5)]))
      [] event_buffer = <<2, 1>> ->
            Some(PlayerStateChangedEvent([NoDiff EXCEPT !.ping_times = Some("Gateway")]))
      [] OTHER -> None

\* the results of read_next_rradio_event
ReadErr(c, context, source) ==
    [result |-> "Err", context |-> context, event |-> None,
     connection |-> [c EXCEPT !.error = <<context, source>>]]
ReadNone(c) ==
    [result |-> "None", context |-> "", event |-> None, connection |-> c]
ReadSome(c, event) ==
    [result |-> "Some", context |-> "", event |-> Some(event), connection |-> c]

\* read_next_rradio_event: the Err arm of the read of the length prefix
PrefixNotRead(c, prefix) ==
    IF prefix.result = "UnexpectedEof"
      THEN ReadNone(prefix.connection)
      ELSE ReadErr(prefix.connection, "Reading from TCP", prefix.result)

\* async fn read_next_rradio_event
ReadNextRradioEvent(c) ==
    LET prefix == ReadExact(c, PrefixSize)
    IN IF prefix.result # "Ok" THEN PrefixNotRead(c, prefix)
       ELSE LET event_length == FromBeBytes(prefix.buf)
                payload == ReadExact(prefix.connection, event_length)
                read == [payload.connection EXCEPT !.event_buffer = payload.buf]
            IN IF payload.result # "Ok"
                 THEN ReadErr(payload.connection, "Reading from TCP", payload.result)
               ELSE IF Decode(payload.buf) = None
                 THEN ReadErr(read, "Parsing msgpack", "DecodeError")
               ELSE ReadSome(read, Decode(payload.buf)[1])

\* the values of a byte, and the length of the longest stream
Bytes == 0..2
MaxBytes == 5

\* the connection attempts do_run makes at most
MaxAttempts == 2

\* the streams the remote sends
Connections ==
    {[bytes |-> b, position |-> 0, ending |-> e, event_buffer |-> <<>>,
      error |-> <<>>] :
        b \in UNION {[1..k -> Bytes] : k \in 0..MaxBytes}, e \in {"eof", "reset"}}

InitRun ==
    /\ view = RootView
    /\ data = DefaultPlayerState
    /\ display = NewDisplay
    /\ grid = BlankGrid
    /\ calls = <<>>
    /\ op = "do_run"
    /\ pre = <<>>
    /\ since = 0
    /\ loop = [pc |-> "connect", item |-> "None", iter |-> <<>>, n |-> 0,
               result |-> "None", attempts |-> <<>>, fallback |-> FALSE]
    /\ now = 0
    /\ connection = NoConnection

CanConnect == loop.pc = "connect" /\ Len(loop.attempts) < MaxAttempts

\* the mutant of ConnectRefused that gives up
ConnectRefusedFatal ==
    /\ CanConnect
    /\ loop' = [loop EXCEPT !.attempts = Append(@, "Refused"),
                            !.pc = "returned", !.result = "Err"]
    /\ UNCHANGED <<view, data, display, grid, calls, op, pre, since, now, connection>>

\* TcpStream::connect fails with ConnectionRefused: wait 100 ms, continue
ConnectRefused ==
    /\ CanConnect
    /\ loop' = [loop EXCEPT !.attempts = Append(@, "Refused")]
    /\ UNCHANGED <<view, data, display, grid, calls, op, pre, since, now, connection>>

\* TcpStream::connect fails with another error: break Err, returned by `?`
ConnectFailed ==
    /\ CanConnect
    /\ loop' = [loop EXCEPT !.attempts = Append(@, "Failed"),
                            !.pc = "returned", !.result = "Err"]
    /\ UNCHANGED <<view, data, display, grid, calls, op, pre, since, now, connection>>

\* TcpStream::connect succeeds: break Ok(stream), then display.clear()
Connected(stream) ==
    /\ CanConnect
    /\ loop' = [loop EXCEPT !.attempts = Append(@, "Ok"), !.pc = "next"]
    /\ connection' = stream
    /\ calls' = Clear(Writer(display)).out
    /\ grid' = GridAfter(grid, calls')
    /\ UNCHANGED <<view, data, display, op, pre, since, now>>

\* the text of format_args!("CPU Temp {:>3}C", temperature.0)
CpuTempText(temperature) ==
    <<"C", "P", "U", " ", "T", "e", "m", "p", " ">>
        \o RightAligned(NatText(temperature), 3) \o <<"C">>

\* the mutant of FallbackScreen that is a task of its own: it goes on
\* writing after the connect loop has ended
FallbackScreenGoesOn(ip_address, temperature) ==
    LET parts == Split(Line(3), 15)
        d0 == IF loop.fallback THEN Writer(display)
              ELSE WriteTo(WriteTo(WriteTo(Clear(Writer(display)),
                                           Line(0), ip_address),
                                   Line(1),
                                   <<"N", "o", " ", "c", "o", "n", "n", "e", "c", "t", "i", "o", "n",
          " ", "t", "o">>),
                           Line(2),
                           <<"i", "n", "t", "e", "r", "n", "a", "l", " ", "p", "r", "o", "g",
          "r", "a", "m">>)
        d1 == WriteTo(d0, parts[1], CpuTempText(temperature))
        d2 == WriteTo(d1, parts[2], TimeText(now))
    IN /\ loop' = [loop EXCEPT !.fallback = TRUE]
       /\ display' = [segment |-> d2.segment]
       /\ calls' = d2.out
       /\ grid' = GridAfter(grid, d2.out)
       /\ UNCHANGED <<view, data, op, pre, since, now, connection>>

\* the future beside the connect loop: the fallback screen, written when it
\* starts, and its temperature and time, written every second
FallbackScreen(ip_address, temperature) ==
    LET parts == Split(Line(3), 15)
        d0 == IF loop.fallback THEN Writer(display)
              ELSE WriteTo(WriteTo(WriteTo(Clear(Writer(display)),
                                           Line(0), ip_address),
                                   Line(1),
                                   <<"N", "o", " ", "c", "o", "n", "n", "e", "c",
                                     "t", "i", "o", "n", " ", "t", "o">>),
                           Line(2),
                           <<"i", "n", "t", "e", "r", "n", "a", "l", " ", "p",
                             "r", "o", "g", "r", "a", "m">>)
        d1 == WriteTo(d0, parts[1], CpuTempText(temperature))
        d2 == WriteTo(d1, parts[2], TimeText(now))
    IN /\ loop.pc = "connect"
       /\ loop' = [loop EXCEPT !.fallback = TRUE]
       /\ display' = [segment |-> d2.segment]
       /\ calls' = d2.out
       /\ grid' = GridAfter(grid, d2.out)
       /\ UNCHANGED <<view, data, op, pre, since, now, connection>>

\* events.next() yields the next item of rradio_events: the result of
\* read_next_rradio_event, or Done when the stream has ended
RradioEvent(temperature) ==
    LET r == ReadNextRradioEvent(connection)
    IN /\ connection' = r.connection
       /\ CASE r.result = "Err" -> OnError
            [] r.result = "None" -> OnDone
            [] r.event[1].kind = "ProtocolVersion" ->
                  OnProtocolVersion(r.event[1].version)
            [] r.event[1].kind = "LogMessage" -> OnLogMessage(r.event[1].message)
            [] OTHER -> OnPlayerStateChanged(r.event[1].diff, temperature)

NextRun ==
    \/ ConnectRefused
    \/ ConnectFailed
    \/ \E stream \in Connections : Connected(stream)
    \/ FallbackScreen(MockIp, 40)
    \/ \E temperature \in Temperatures : RradioEvent(temperature)
    \/ OnTickEvent /\ UNCHANGED connection
    \/ PaintPass /\ UNCHANGED connection

SpecRun == InitRun /\ [][NextRun]_vars

----------------------------------------------------------------------------
(* do_run with what it shows: lib.rs.  The fallback screen beside the      *)
(* connect loop, the clear after the connection is made, then the event    *)
(* loop with the view of the application, every item followed by its       *)
(* paint pass.                                                             *)

\* the number of items the event loop takes after the fallback screen
MaxShown == 3

\* the stream of a remote that is listening
Listening == [NoConnection EXCEPT !.ending = "eof"]

InitScreen ==
    /\ view = App(MockIp)
    /\ data = DefaultPlayerState
    /\ display = NewDisplay
    /\ grid = BlankGrid
    /\ calls = <<>>
    /\ op = Call("do_run", <<>>)
    /\ pre = data
    /\ since = TickCap
    /\ loop = [pc |-> "connect", item |-> "None", iter |-> <<>>, n |-> 0,
               result |-> "None", attempts |-> <<>>, fallback |-> FALSE]
    /\ now = 0
    /\ connection = NoConnection

\* the loop over events.next().await takes an item
CanShow == loop.pc = "next" /\ loop.n < MaxShown

NextScreen ==
    \/ ConnectRefused
    \/ ConnectFailed
    \/ Connected(Listening)
    \/ \E temperature \in Temperatures : FallbackScreen(MockIp, temperature)
    \/ \E state_diff \in AppDiffs :
          CanShow /\ AppPlayerStateChanged(state_diff, 40)
    \/ CanShow /\ AppTickEvent
    \/ ClockAdvances

SpecScreen == InitScreen /\ [][NextScreen]_vars

----------------------------------------------------------------------------
(* run: lib.rs.  do_run as above, and what run does with the value do_run  *)
(* returns: it clears the display and writes the shutdown message or the   *)
(* error.  An anyhow error is the sequence of its context and its source.  *)

\* the Display text of a context, of an io error and of the decoder's error
MessageText(message) ==
    CASE message = "Reading from TCP" -> <<"R", "e", "a", "d", "i", "n", "g", " ", "f", "r", "o", "m", " ",
          "T", "C", "P">>
      [] message = "Parsing msgpack" -> <<"P", "a", "r", "s", "i", "n", "g", " ", "m", "s", "g", "p", "a",
          "c", "k">>
      [] message = "Failed to connect to rradio" -> <<"F", "a", "i", "l", "e", "d", " ", "t", "o", " ", "c", "o", "n",
          "n", "e", "c", "t", " ", "t", "o", " ", "r", "r", "a", "d", "i",
          "o">>
      [] message = "UnexpectedEof" -> <<"f", "a", "i", "l", "e", "d", " ", "t", "o", " ", "f", "i", "l",
          "l", " ", "w", "h", "o", "l", "e", " ", "b", "u", "f", "f", "e",
          "r">>
      [] message = "ConnectionReset" -> <<"C", "o", "n", "n", "e", "c", "t", "i", "o", "n", " ", "r", "e",
          "s", "e", "t", " ", "b", "y", " ", "p", "e", "e", "r", " ", "(",
          "o", "s", " ", "e", "r", "r", "o", "r", " ", "1", "0", "4", ")">>
      [] message = "NetworkUnreachable" ->
            <<"N", "e", "t", "w", "o", "r", "k", " ", "i", "s", " ", "u", "n",
          "r", "e", "a", "c", "h", "a", "b", "l", "e", " ", "(", "o", "s",
          " ", "e", "r", "r", "o", "r", " ", "1", "0", "1", ")">>
      [] OTHER ->
            <<"i", "n", "v", "a", "l", "i", "d", " ", "t", "y", "p", "e", ":",
          " ", "i", "n", "t", "e", "g", "e", "r", " ", "0", ",",
          " ", "e", "x", "p", "e", "c", "t", "e", "d", " ", "a", " ", "v",
          "a", "r", "i", "a", "n", "t", " ", "o", "f", " ", "e", "n", "u",
          "m", " ", "r", "r", "a", "d", "i", "o", "_", "m", "e", "s", "s",
          "a", "g", "e", "s", ":", ":", "E", "v", "e", "n", "t">>

\* the text of anyhow::bail!("Bad rradio version. rradio: {}, screen: {}", ..)
BadVersionText(version) ==
    <<"B", "a", "d", " ", "r", "r", "a", "d", "i", "o", " ", "v", "e",
          "r", "s", "i", "o", "n", ".", " ", "r", "r", "a", "d", "i", "o",
          ":", " ">>
        \o ArcStrText(version) \o <<",", " ", "s", "c", "r", "e", "e", "n", ":", " ">> \o ArcStrText(VERSION)

\* format!("{:#}", error): the context and its cause, joined by ": "
AlternateText(error) ==
    IF error.version # "" THEN BadVersionText(error.version)
    ELSE MessageText(error.chain[1]) \o <<":", " ">> \o MessageText(error.chain[2])

\* the value do_run has returned: Ok(()) is None, Err(error) is Some(error)
ExitStatus ==
    IF loop.result = "Ok" THEN None
    ELSE IF loop.n = 0
      THEN Some([version |-> "",
                 chain |-> <<"Failed to connect to rradio", "NetworkUnreachable">>])
    ELSE IF loop.item = "ProtocolVersion"
      THEN Some([version |-> Decode(connection.event_buffer)[1].version,
                 chain |-> <<>>])
    ELSE Some([version |-> "", chain |-> connection.error])

\* match exit_status: the shutdown message, or the error on the whole screen
ExitScreen(d, exit_status) ==
    IF exit_status = None
      THEN LET d0 == WriteTo(d, Line(0), <<"E", "n", "d", "i", "n", "g", " ", "s", "c", "r", "e", "e", "n",
          " ", "d", "r", "i", "v", "e", "r">>)
               d1 == WriteTo(d0, Line(1), <<"C", "o", "m", "p", "u", "t", "e", "r", " ", "n", "o", "t", " ",
          "s", "h", "u", "t">>)
               d2 == WriteTo(d1, Line(2), <<"d", "o", "w", "n">>)
           IN WriteTo(d2, Line(3), <<>>)
      ELSE WriteTo(d, EntireScreen, AlternateText(exit_status[1]))

\* the mutant of RunEnds that does not clear the display
RunEndsNoClear ==
    LET d == ExitScreen(Writer(display), ExitStatus)
    IN /\ loop.pc = "returned"
       /\ loop' = [loop EXCEPT !.pc = "exited"]
       /\ display' = [segment |-> d.segment]
       /\ calls' = d.out
       /\ grid' = GridAfter(grid, d.out)
       /\ UNCHANGED <<view, data, op, pre, since, now, connection>>

\* run, after block_on(do_run(..)): display.clear(), then match exit_status
RunEnds ==
    LET d == ExitScreen(Clear(Writer(display)), ExitStatus)
    IN /\ loop.pc = "returned"
       /\ loop' = [loop EXCEPT !.pc = "exited"]
       /\ display' = [segment |-> d.segment]
       /\ calls' = d.out
       /\ grid' = GridAfter(grid, d.out)
       /\ UNCHANGED <<view, data, op, pre, since, now, connection>>

NextRunEnds ==
    \/ NextRun
    \/ RunEnds

SpecRunEnds == InitRun /\ [][NextRunEnds]_vars

----------------------------------------------------------------------------
(* The merged stream of events: lib.rs, do_run, events.  The loop record   *)
(* holds the events decoded from the connection and not yet taken, in the  *)
(* order they were decoded (rradio), whether the connection has closed,    *)
(* the Instant of the last tick taken (previous_time) and the seconds that *)
(* have passed since it (due).  Each take is one events.next().await of    *)
(* the loop; `pre` is the loop record before the last take.                *)

\* the longest queue of decoded events, the longest delay of a tick, and
\* the number of Instants the model tells apart
MaxReady == 2
MaxLag == 2
ClockSize == 3

\* the events the remote sends
Messages == {"m1", "m2"}

\* pub enum Event
RradioItem(event) == [kind |-> "RradioEvent", event |-> event, time |-> 0]
TickItem(new_time) == [kind |-> "TickEvent", event |-> "", time |-> new_time]
DoneItem == [kind |-> "Done", event |-> "", time |-> 0]
NoItem == [kind |-> "None", event |-> "", time |-> 0]

InitMerge ==
    /\ view = RootView
    /\ data = DefaultPlayerState
    /\ display = NewDisplay
    /\ grid = BlankGrid
    /\ calls = <<>>
    /\ op = "do_run"
    /\ since = 0
    /\ now = 0
    /\ connection = NoConnection
    /\ loop = [pc |-> "next", item |-> NoItem, rradio |-> <<>>, closed |-> FALSE,
               previous_time |-> 0, due |-> 0]
    /\ pre = loop

\* the remote sends an event: read_next_rradio_event can decode it
Arrives(event) ==
    /\ ~loop.closed
    /\ Len(loop.rradio) < MaxReady
    /\ loop' = [loop EXCEPT !.rradio = Append(@, event)]
    /\ UNCHANGED <<view, data, display, grid, calls, op, pre, since, now, connection>>

\* the remote closes the connection
Closes ==
    /\ ~loop.closed
    /\ loop' = [loop EXCEPT !.closed = TRUE]
    /\ UNCHANGED <<view, data, display, grid, calls, op, pre, since, now, connection>>

\* a second passes
SecondPasses ==
    /\ loop.due < MaxLag
    /\ loop' = [loop EXCEPT !.due = @ + 1]
    /\ UNCHANGED <<view, data, display, grid, calls, op, pre, since, now, connection>>

\* rradio_events: the next decoded event, then Done once the stream has
\* ended; None while neither is there (Poll::Pending)
PollRradioEvents(l) ==
    IF l.rradio # <<>> THEN Some(RradioItem(Head(l.rradio)))
    ELSE IF l.closed THEN Some(DoneItem)
    ELSE None

\* tick_events: Timer::at(previous_time + 1 s) yields the Instant it was set to
PollTickEvents(l) ==
    IF l.due >= 1 THEN Some(TickItem((l.previous_time + 1) % ClockSize)) ELSE None

\* the loop record after events.next() has yielded the item
Yielded(l, item) ==
    CASE item.kind = "RradioEvent" -> [l EXCEPT !.item = item, !.rradio = Tail(@)]
      [] item.kind = "TickEvent" ->
            [l EXCEPT !.item = item, !.previous_time = item.time, !.due = @ - 1]
      [] OTHER -> [l EXCEPT !.item = item, !.pc = "returned"]

\* the mutant of EventsNext that takes either item when both are ready
EventsNextRace ==
    /\ loop.pc = "next"
    /\ \E item \in {PollRradioEvents(loop), PollTickEvents(loop)} \ {None} :
          loop' = Yielded(loop, item[1])
    /\ pre' = loop
    /\ UNCHANGED <<view, data, display, grid, calls, op, since, now, connection>>

\* events.next().await on rradio_events.or(tick_events): Or polls the first
\* stream and polls the second one only when the first has no item
EventsNext ==
    LET first == PollRradioEvents(loop)
        polled == IF first # None THEN first ELSE PollTickEvents(loop)
    IN /\ loop.pc = "next"
       /\ polled # None
       /\ loop' = Yielded(loop, polled[1])
       /\ pre' = loop
       /\ UNCHANGED <<view, data, display, grid, calls, op, since, now, connection>>

NextMerge ==
    \/ \E event \in Messages : Arrives(event)
    \/ Closes
    \/ SecondPasses
    \/ EventsNext

\* the executor polls the loop's future whenever an item is ready
SpecMerge == InitMerge /\ [][NextMerge]_vars /\ WF_vars(EventsNext)

----------------------------------------------------------------------------
(* Reading a call sequence *)

RECURSIVE WrittenChars(_)
WrittenChars(ks) ==
    IF ks = <<>> THEN <<>>
    ELSE IF Head(ks).call = "write_char"
           THEN <<Head(ks).c>> \o WrittenChars(Tail(ks))
           ELSE WrittenChars(Tail(ks))

\* the cursor of a device that does not wrap, after the calls ks[1..i]
RECURSIVE CursorAfter(_, _)
CursorAfter(ks, i) ==
    IF i = 0 THEN NoPosition
    ELSE IF ks[i].call = "move_cursor" THEN ks[i].position
    ELSE IF ks[i].call = "write_char"
           THEN LET p == CursorAfter(ks, i - 1)
                IN CursorPosition(p.row, p.column + 1)
    ELSE CursorAfter(ks, i - 1)

\* the k-th cell (from 0) of the run of cells that starts at p
CellAt(p, k) ==
    CursorPosition(p.row + ((p.column + k) \div SCREEN_WIDTH),
                   (p.column + k) % SCREEN_WIDTH)

WriteIndexes(ks) == {i \in 1..Len(ks) : ks[i].call = "write_char"}

\* how many of ks[1..i] are write_char calls
WritesUpTo(ks, i) == Cardinality({j \in 1..i : ks[j].call = "write_char"})

----------------------------------------------------------------------------
(* C3: write_to issues exactly n write_char calls for a segment of n       *)
(* cells: the first min(k, n) characters of the k-character text in        *)
(* order, then n - min(k, n) spaces; characters beyond the n-th never      *)
(* reach the device.                                                       *)
C3_WriteToFillsSegment ==
    op = "write_to" =>
        LET n == data.segment.length
            m == Min(Len(data.item), n)
        IN WrittenChars(calls) = Take(data.item, n) \o Spaces(n - m)

\* a text longer than its segment and a text shorter than its segment
C3_Witness ==
    /\ op = "write_to"
    /\ data.segment.length = 2
    /\ Len(data.item) = 3
    /\ Len(WrittenChars(calls)) = 2

C3_WitnessPadded ==
    /\ op = "write_to"
    /\ data.segment.length = 2
    /\ data.item = <<"a">>
    /\ WrittenChars(calls) = <<"a", " ">>

(* C4: a write_to whose segment runs past the last column of a row moves   *)
(* the cursor to (row + 1, 0) after the character written in the last      *)
(* column and before the next one, at every row boundary crossed; no       *)
(* character is written at a tracked column at or beyond the grid width.   *)
C4_ExplicitWrap ==
    op = "write_to" =>
        /\ \A i \in WriteIndexes(calls) :
              /\ CursorAfter(calls, i - 1).column < SCREEN_WIDTH
              /\ CursorAfter(calls, i - 1)
                    = CellAt(data.segment.position, WritesUpTo(calls, i) - 1)
        /\ \A i \in 2..Len(calls) :
              calls[i].call = "move_cursor" =>
                  /\ calls[i - 1].call = "write_char"
                  /\ CursorAfter(calls, i - 2).column = SCREEN_WIDTH - 1
                  /\ calls[i].position
                        = CursorPosition(CursorAfter(calls, i - 2).row + 1, 0)

\* a segment that crosses two row boundaries
C4_Witness ==
    /\ op = "write_to"
    /\ data.segment.position.column = SCREEN_WIDTH - 1
    /\ data.segment.length = SCREEN_WIDTH + 2
    /\ Cardinality({i \in 1..Len(calls) : calls[i].call = "move_cursor"}) = 3

----------------------------------------------------------------------------
(* Reading what a paint of the widget tree wrote *)

\* the cells a segment covers
SegmentCells(segment) == {CellAt(segment.position, k) : k \in 0..(segment.length - 1)}

\* the cells the write_char calls of ks land on
WrittenCells(ks) == {CursorAfter(ks, i - 1) : i \in WriteIndexes(ks)}

\* text cut or padded with spaces to n characters
Fit(text, n) == Take(text, n) \o Spaces(n - Min(Len(text), n))

\* the write_char calls of ks, each with the cell it lands on
WrittenAt(ks) ==
    LET idx == WriteIndexes(ks)
        nth(k) == CHOOSE i \in idx : WritesUpTo(ks, i) = k
    IN [k \in 1..Cardinality(idx) |->
            [cell |-> CursorAfter(ks, nth(k) - 1), c |-> ks[nth(k)].c]]

\* text written into all of a segment, cell after cell
Filled(segment, text) ==
    [k \in 1..segment.length |->
        [cell |-> CellAt(segment.position, k - 1), c |-> Fit(text, segment.length)[k]]]

\* the widgets of the tree
TreeScrolling(v) == v.a
TreeFixed(v) == v.b.w0
TreeLabel(v) == v.b.w1

\* the segments of the widgets of tree v that data d selects and that are dirty
DirtySegments(v, d) ==
    IF d.tag = "A"
      THEN IF TreeScrolling(v).needs_repainting THEN {TreeScrolling(v).segment} ELSE {}
      ELSE (IF TreeFixed(v).should_paint THEN {TreeFixed(v).segment} ELSE {})
            \cup (IF TreeLabel(v).needs_repainting THEN {TreeLabel(v).segment} ELSE {})

\* the full output of the widgets that data d selects
FullOutput(v, d) ==
    IF d.tag = "A"
      THEN Filled(TreeScrolling(v).segment, d.val)
      ELSE Filled(TreeFixed(v).segment, FixedString)
            \o Filled(TreeLabel(v).segment,
                      IF TreeLabel(v).text_alignment = "Right"
                        THEN Spaces(TreeLabel(v).segment.length - Min(Len(d.val), TreeLabel(v).segment.length))
                                \o Take(d.val, TreeLabel(v).segment.length)
                        ELSE d.val)

----------------------------------------------------------------------------
(* C2, as claimed: a paint pass calls write_char only for cells whose     *)
(* character changes; a cell that already shows the character the data    *)
(* renders there receives no write_char.                                  *)
C2_OnlyChangedCells ==
    op.name = "paint" =>
        \A i \in WriteIndexes(calls) :
            pre.grid[CellIndex(CursorAfter(calls, i - 1))] # calls[i].c

(* C2, amended: a paint pass calls write_char only for the cells of the   *)
(* widgets that are dirty; each dirty widget writes every cell of its     *)
(* segment once, whether the cell's character changes or not, and the     *)
(* cells of a widget that is not dirty receive no write_char.             *)
C2_OnlyDirtyWidgets ==
    op.name = "paint" =>
        /\ WrittenCells(calls)
              = UNION {SegmentCells(segment) : segment \in DirtySegments(pre.view, data)}
        /\ Len(WrittenChars(calls)) = Cardinality(WrittenCells(calls))

\* the label alone is dirty, and rewrites a cell with the character it shows
C2_Witness ==
    /\ op.name = "paint"
    /\ data.tag = "B"
    /\ DirtySegments(pre.view, data) = {TreeLabel(view).segment}
    /\ \E i \in WriteIndexes(calls) :
          pre.grid[CellIndex(CursorAfter(calls, i - 1))] = calls[i].c
    /\ \E i \in WriteIndexes(calls) :
          pre.grid[CellIndex(CursorAfter(calls, i - 1))] # calls[i].c

(* C5: after an EitherWidget update whose old and new data select         *)
(* different variants, the next paint writes the full output of the newly *)
(* active widget for the new data, also when that widget was not dirty    *)
(* and holds the text it cached when it was active before.                *)
C5_SwitchForcesRepaint ==
    (op.name = "paint" /\ pre.op.name = "update" /\ pre.op.switched) =>
        WrittenAt(calls) = FullOutput(view, data)

\* the scrolling label is shown again, having been painted when it was
\* shown before, with a text it had scrolled
C5_Witness ==
    /\ op.name = "paint"
    /\ pre.op.name = "update"
    /\ pre.op.switched
    /\ pre.op.clean
    /\ data = EitherA(LongText)
    /\ WrittenChars(calls) = Take(LongText, TreeSegment.length)

(* C6, as claimed: a Label produces no device writes on a paint that      *)
(* follows an update whose old and new data compare equal.                *)
C6_NoWritesAfterEqualUpdate ==
    (op.name = "paint" /\ pre.op.name = "update" /\ ~pre.op.changed /\ data.tag = "B") =>
        WrittenCells(calls) \cap SegmentCells(TreeLabel(view).segment) = {}

(* C6, amended: an update whose old and new data compare equal leaves the *)
(* Label's dirty flag as it was; a Label that was not dirty before such   *)
(* an update is not dirty after it and produces no device writes on the   *)
(* paint that follows.  (A Label that was dirty before it, as every Label *)
(* is from construction to its first paint, is still dirty and writes.)   *)
C6_EqualUpdateKeepsFlag ==
    /\ (op.name = "update" /\ ~op.changed /\ data.tag = "B") =>
          TreeLabel(view).needs_repainting = TreeLabel(pre.view).needs_repainting
    /\ (op.name = "paint" /\ pre.op.name = "update" /\ ~pre.op.changed
            /\ data.tag = "B" /\ ~TreeLabel(pre.view).needs_repainting) =>
          WrittenCells(calls) \cap SegmentCells(TreeLabel(view).segment) = {}

\* an update with equal data reaches a label that is not dirty
C6_Witness ==
    /\ op.name = "update"
    /\ ~op.changed
    /\ data.tag = "B"
    /\ ~TreeLabel(pre.view).needs_repainting
    /\ pre.op.name = "paint"

(* C7: for FixedLabel, Label and ScrollingLabel, paint clears the dirty   *)
(* flag: a paint that directly follows another paint issues no write to   *)
(* the display.                                                           *)
C7_PaintClearsDirty ==
    op.name = "paint" =>
        /\ ~AnyDirty(view, data)
        /\ pre.op.name = "paint" => calls = <<>>

\* a second paint of the fixed label and the label, right after the first
C7_Witness ==
    /\ op.name = "paint"
    /\ pre.op.name = "paint"
    /\ ~pre.op.clean
    /\ data.tag = "B"
    /\ calls = <<>>

----------------------------------------------------------------------------
(* Reading a tick of the scrolling label *)

OverLong == Len(data) > view.segment.length

\* the text from the start offset, before the last operation
Remainder == Drop(data, pre.view.start_position)

\* the last operation reset the scroll
WasReset ==
    /\ view.start_position = 0
    /\ view.wait_ticks_remaining = 2
    /\ view.needs_repainting

\* a whitespace-delimited word starts after the first character of text
HasLaterWordStart(text) ==
    \E j \in 2..Len(text) : text[j] # " " /\ text[j - 1] = " "

\* the position (from 1) at which the scan for the next start stops: the
\* first whitespace character among the first five, else the sixth character
ScanStop(text) ==
    IF \E j \in 1..Min(5, Len(text)) : text[j] = " "
      THEN CHOOSE j \in 1..Min(5, Len(text)) :
              text[j] = " " /\ \A i \in 1..(j - 1) : text[i] # " "
      ELSE 6

\* the positions after the scan's stop that hold a character other than whitespace
LaterStarts(text) == {j \in (ScanStop(text) + 1)..Len(text) : text[j] # " "}

(* C8, as claimed: with over-long text, the two ticks after a reset       *)
(* (data change or force_repaint) leave the start offset and the dirty    *)
(* flag as they are and decrement the wait counter, and the tick after    *)
(* them marks the label dirty and moves the visible window.               *)
C8_WaitThenMove ==
    (op.name = "event" /\ OverLong) =>
        /\ since \in 1..2 =>
              /\ view.start_position = pre.view.start_position
              /\ view.needs_repainting = pre.view.needs_repainting
              /\ view.wait_ticks_remaining = pre.view.wait_ticks_remaining - 1
        /\ since = 3 =>
              /\ view.needs_repainting
              /\ view.start_position # pre.view.start_position

(* C8, amended: with over-long text, the two ticks after a reset leave    *)
(* the start offset and the dirty flag as they are and decrement the wait *)
(* counter, and the tick after them marks the label dirty and moves the   *)
(* visible window to a later start offset, unless the text has 6          *)
(* characters or fewer or no character other than whitespace follows the  *)
(* scan's stop: then the start offset stays 0 and the wait counter is     *)
(* reloaded.                                                              *)
C8_WaitThenMoveOrRestart ==
    (op.name = "event" /\ OverLong) =>
        /\ since \in 1..2 =>
              /\ view.start_position = pre.view.start_position
              /\ view.needs_repainting = pre.view.needs_repainting
              /\ view.wait_ticks_remaining = pre.view.wait_ticks_remaining - 1
              /\ view.wait_ticks_remaining = 2 - since
        /\ since = 3 =>
              /\ view.needs_repainting
              /\ pre.view.start_position = 0
              /\ IF Len(data) <= 6 \/ LaterStarts(data) = {}
                   THEN view.start_position = 0 /\ view.wait_ticks_remaining = 2
                   ELSE view.start_position > 0 /\ view.wait_ticks_remaining = 0

\* the third tick after a reset moves the window of a label painted before it
C8_Witness ==
    /\ op.name = "event"
    /\ OverLong
    /\ since = 3
    /\ ~pre.view.needs_repainting
    /\ view.start_position > 0

(* C9, as claimed: with over-long text, a tick that arrives with the wait *)
(* counter at zero resets the label (start offset 0, wait counter 2,      *)
(* dirty) when the remainder from the start offset has 6 characters or    *)
(* fewer, and also when no later word start exists in the remainder; in   *)
(* every other case it does not reset.                                    *)
C9_ResetIffShortOrNoWord ==
    (op.name = "event" /\ OverLong /\ pre.view.wait_ticks_remaining = 0) =>
        (WasReset <=> (Len(Remainder) <= 6 \/ ~HasLaterWordStart(Remainder)))

(* C9, amended: with over-long text, a tick that arrives with the wait    *)
(* counter at zero resets the label when the remainder from the start     *)
(* offset has 6 characters or fewer, and also when every character after  *)
(* the scan's stop (the first whitespace character among the first five   *)
(* of the remainder, else its sixth character) is whitespace; in every    *)
(* other case it does not reset: it moves the start offset to the first   *)
(* character after the stop that is not whitespace, whether a word starts *)
(* there or not, and leaves the wait counter at zero.                     *)
C9_ResetIffShortOrNoStart ==
    (op.name = "event" /\ OverLong /\ pre.view.wait_ticks_remaining = 0) =>
        IF Len(Remainder) <= 6 \/ LaterStarts(Remainder) = {}
          THEN WasReset
          ELSE /\ ~WasReset
               /\ view.needs_repainting
               /\ view.wait_ticks_remaining = 0
               /\ view.start_position - pre.view.start_position + 1 \in LaterStarts(Remainder)
               /\ \A j \in LaterStarts(Remainder) :
                      view.start_position - pre.view.start_position + 1 <= j

\* a tick moves the window into the middle of a word: no reset, and no
\* word starts in the remainder
C9_Witness ==
    /\ op.name = "event"
    /\ OverLong
    /\ pre.view.wait_ticks_remaining = 0
    /\ ~HasLaterWordStart(Remainder)
    /\ view.start_position = pre.view.start_position + 6

\* a tick resets the label because the remainder has exactly 6 characters
C9_WitnessReset ==
    /\ op.name = "event"
    /\ OverLong
    /\ pre.view.wait_ticks_remaining = 0
    /\ Len(Remainder) = 6
    /\ WasReset

(* C10: with a text that has no more characters than the segment, a tick  *)
(* leaves the start offset, the wait counter and the dirty flag as they   *)
(* are, so the rendered slice does not change, and causes no display      *)
(* write.                                                                 *)
C10_FittingTextIgnoresTicks ==
    (op.name = "event" /\ ~OverLong) =>
        /\ view.start_position = pre.view.start_position
        /\ view.wait_ticks_remaining = pre.view.wait_ticks_remaining
        /\ view.needs_repainting = pre.view.needs_repainting
        /\ view.start_position = 0
        /\ calls = <<>>

\* a tick reaches a label whose text fits while its wait counter is not zero
C10_Witness ==
    /\ op.name = "event"
    /\ ~OverLong
    /\ Len(data) = view.segment.length
    /\ pre.view.wait_ticks_remaining > 0
    /\ ~pre.view.needs_repainting

----------------------------------------------------------------------------
(* Reading an iteration of the event loop *)

\* the number of paint passes the iteration has made
PaintCount(iter) == Cardinality({i \in 1..Len(iter) : iter[i] = "view.paint"})

\* the iteration made one paint pass, as its last call
PaintedLast(iter) ==
    /\ PaintCount(iter) = 1
    /\ iter[Len(iter)] = "view.paint"

\* the loop is back at events.next() after an item of kind k
BackAfter(k) == loop.pc = "next" /\ loop.item = k

(* C1, as claimed: every item taken from the merged stream that does not  *)
(* end the loop is followed by exactly one paint pass before the next     *)
(* item is taken, and no paint pass happens while the item is processed.  *)
C1_PaintAfterEveryItem ==
    /\ (loop.pc = "next" /\ loop.item # "None") => PaintedLast(loop.iter)
    /\ loop.pc = "paint" => PaintCount(loop.iter) = 0

(* C1, amended: every state diff, log message and tick taken from the     *)
(* merged stream is followed by exactly one paint pass before the next    *)
(* item is taken, and no paint pass happens while the item is processed;  *)
(* an announcement of the matching protocol version is followed by no     *)
(* paint pass and by no call on the root widget or the display.           *)
C1_PaintAfterEveryItemButVersion ==
    /\ \A k \in {"PlayerStateChanged", "LogMessage", "TickEvent"} :
          BackAfter(k) => PaintedLast(loop.iter)
    /\ BackAfter("ProtocolVersion") => loop.iter = <<>>
    /\ loop.pc = "paint" => PaintCount(loop.iter) = 0
    /\ loop.pc = "returned" => PaintCount(loop.iter) = 0

\* a diff that changed the station was processed and painted
C1_Witness ==
    /\ BackAfter("PlayerStateChanged")
    /\ loop.iter = <<"view.update", "view.force_repaint", "display.clear",
                     "view.paint">>

\* the matching version was announced after a painted item
C1_WitnessVersion == BackAfter("ProtocolVersion") /\ loop.n = 2

----------------------------------------------------------------------------
(* C11: a ScrollingLabel update whose old and new data differ performs a  *)
(* full reset: the cached text is dropped, the start offset becomes 0,    *)
(* the wait counter is reloaded to 2 and the label is dirty, so the next  *)
(* paint renders the new data from its first character; an update with    *)
(* equal data changes none of these.                                      *)
C11_ChangedUpdateResets ==
    /\ (op.name = "update" /\ op.changed) =>
          /\ view.text = None
          /\ view.start_position = 0
          /\ view.wait_ticks_remaining = WAIT_BEFORE_SCROLLING_TICKS_COUNT
          /\ view.needs_repainting
    /\ (op.name = "update" /\ ~op.changed) => view = pre.view
    /\ (op.name = "paint" /\ pre.op.name = "update" /\ pre.op.changed) =>
          WrittenChars(calls) = Fit(data, view.segment.length)

\* the data changes under a label that was painted, holds the text it
\* cached and has scrolled
C11_Witness ==
    /\ op.name = "update"
    /\ op.changed
    /\ pre.view.text # None
    /\ pre.view.start_position > 0
    /\ ~pre.view.needs_repainting
    /\ view.start_position = 0

----------------------------------------------------------------------------
(* Reading a call on the player state *)

\* the fields of a PlayerState that no diff carries
ErrorFields == {"station_not_found", "current_error"}

\* field f holds what the diff value dv says, given that it held `old`
FieldFollows(f, dv, old, new) ==
    IF f \in OptionDiffFields
      THEN CASE dv.kind = "NoChange" -> new = old
             [] dv.kind = "ChangedToNone" -> new = None
             [] OTHER ->
                   IF f = "current_station"
                     THEN new # None /\ new[1].val = dv.val[1]
                     ELSE new = dv.val
      ELSE IF dv = None THEN new = old ELSE new = dv[1]

SetsStation(diff) == diff.current_station.kind = "ChangedToSome"

(* C12: apply_diff sets each field the diff specifies to the diff's value *)
(* (a cleared optional field becomes absent) and leaves every field the   *)
(* diff does not specify at its prior value; station_not_found and        *)
(* current_error are unchanged unless the diff sets a non-empty station,  *)
(* and temperature is unchanged; a diff with only volume = 5 applied to   *)
(* the default state gives the default state with volume 5.               *)
C12_DiffUpdatesSpecifiedFields ==
    op.name = "apply_diff" =>
        /\ \A f \in DiffFields : FieldFollows(f, op.arg[f], pre[f], data[f])
        /\ ~SetsStation(op.arg) => \A f \in ErrorFields : data[f] = pre[f]
        /\ data.temperature = pre.temperature
        /\ (pre = DefaultPlayerState /\ op.arg = [NoDiff EXCEPT !.volume = Some(5)]) =>
              data = [DefaultPlayerState EXCEPT !.volume = 5]

\* a diff that clears one field and sets another is applied to a state
\* in which every field differs from the default
C12_Witness ==
    /\ op.name = "apply_diff"
    /\ pre = Failed(Playing)
    /\ op.arg = [NoDiff EXCEPT !.track_duration = ChangedToNone, !.volume = Some(-1)]
    /\ data = [pre EXCEPT !.track_duration = None, !.volume = -1]

\* the diff with only volume = 5 is applied to the default state
C12_WitnessVolume ==
    /\ op.name = "apply_diff"
    /\ pre = DefaultPlayerState
    /\ op.arg = [NoDiff EXCEPT !.volume = Some(5)]
    /\ data.volume = 5

(* C13: applying a diff that sets a non-empty current station yields a    *)
(* state with station_not_found and current_error both absent, whatever   *)
(* they were before and whatever else the diff contains.                  *)
C13_NewStationClearsErrors ==
    (op.name = "apply_diff" /\ SetsStation(op.arg)) =>
        /\ data.station_not_found = None
        /\ data.current_error = None

\* a station is set, with another field, while both errors are present
C13_Witness ==
    /\ op.name = "apply_diff"
    /\ SetsStation(op.arg)
    /\ op.arg.volume # None
    /\ pre.station_not_found # None
    /\ pre.current_error # None
    /\ data.station_not_found = None
    /\ data.current_error = None

(* C14: handle_log_message on a station-not-found error sets              *)
(* station_not_found to the error's index and leaves current_error        *)
(* unchanged; on any other error it sets current_error to that error and  *)
(* leaves station_not_found unchanged; every other field is unchanged.    *)
C14_LogMessageSetsOneField ==
    op.name = "handle_log_message" =>
        IF op.arg.error.kind = "StationNotFound"
          THEN data = [pre EXCEPT !.station_not_found = Some(op.arg.error.index)]
          ELSE /\ data.current_error # None
               /\ data.current_error[1].val = op.arg.error
               /\ data = [pre EXCEPT !.current_error = data.current_error]

\* another error arrives while an earlier error and a station-not-found
\* index are held
C14_Witness ==
    /\ op.name = "handle_log_message"
    /\ op.arg.error.kind = "Other"
    /\ pre.current_error # None
    /\ pre.station_not_found # None
    /\ data.current_error # pre.current_error
    /\ data.station_not_found = pre.station_not_found

----------------------------------------------------------------------------
(* C15: a log message carrying a player error never ends the event loop:  *)
(* the loop folds it into the state, paints, and is back at taking the    *)
(* next event; do_run does not return because of it.                      *)
C15_LogMessageNeverEndsLoop ==
    loop.item = "LogMessage" =>
        /\ loop.result = "None"
        /\ loop.pc \in {"paint", "next"}
        /\ data.current_error # None \/ data.station_not_found # None
        /\ loop.pc = "paint" => loop.iter = <<"view.update">>
        /\ loop.pc = "next" => loop.iter = <<"view.update", "view.paint">>

\* a tick is processed after a log message whose error the state holds
C15_Witness ==
    /\ BackAfter("TickEvent")
    /\ loop.n = 2
    /\ data.current_error # None
    /\ loop.result = "None"


----------------------------------------------------------------------------
(* C16: rendering of the errors a log message delivers *)

\* row r of the grid
GridRow(g, r) == SubSeq(g, r * SCREEN_WIDTH + 1, (r + 1) * SCREEN_WIDTH)

\* the text stands somewhere in a row of the grid
Shows(g, text) ==
    \E r \in 0..(SCREEN_HEIGHT - 1), c \in 0..(SCREEN_WIDTH - Len(text)) :
        SubSeq(GridRow(g, r), c + 1, c + Len(text)) = text

\* impl Display for SharedError, shortened: the text of rradio's error
ErrorText(error) == <<"E", "r", "r", "o", "r">>

\* the text that shows the error of a log message on the display
RenderedText(error) ==
    IF error.kind = "StationNotFound"
      THEN StationNotFoundText(error.index)
      ELSE ErrorText(error)

\* C16, as stated: after the iteration of a log message (the update and the
\* paint pass that follows it) the display shows the error of the message,
\* whether a station is selected or not.
C16_ErrorsRendered ==
    op.name = "LogMessage" => Shows(grid, RenderedText(op.arg.error))

\* a log message has set an error, the paint pass has run, and the display
\* does not show the error: a StationNotFound while a station is selected,
\* and any other error with and without a station
C16_Witness ==
    /\ op.name = "LogMessage"
    /\ op.arg.error.kind = "StationNotFound"
    /\ data.station_not_found = Some(op.arg.error.index)
    /\ data.current_station # None
    /\ ~Shows(grid, RenderedText(op.arg.error))

\* C16, as the code has it: the display shows the error of a log message
\* exactly when it is a StationNotFound and no station is selected
C16_RenderedOnlyWithoutStation ==
    op.name = "LogMessage" =>
        (Shows(grid, RenderedText(op.arg.error))
            <=> (/\ op.arg.error.kind = "StationNotFound"
                 /\ data.current_station = None))

----------------------------------------------------------------------------
(* C17 to C20: the connection, the stream of events and how do_run ends *)

\* the step takes the next item of rradio_events
TakesRradioItem ==
    /\ loop.pc = "next"
    /\ loop'.n = loop.n + 1
    /\ loop'.item # "TickEvent"

\* the stream has ended where the next frame would start
CleanlyClosed(c) == c.position = Len(c.bytes) /\ c.ending = "eof"

\* C17: when the remote has closed the connection where the next frame
\* would start, the next item of the rradio events is Done and it ends the
\* loop: do_run returns Ok, the iteration calls neither the view nor the
\* display, and no step follows a Done.
C17_CleanCloseEndsLoop ==
    [][/\ (TakesRradioItem /\ CleanlyClosed(connection)) =>
              /\ loop'.item = "Done"
              /\ loop'.pc = "returned"
              /\ loop'.result = "Ok"
              /\ loop'.iter = <<>>
              /\ UNCHANGED <<view, data, display, grid>>
       /\ loop.item # "Done"]_vars

\* a log message was decoded and processed, the stream then ended at the
\* frame boundary, and do_run has returned Ok
C17_Witness ==
    /\ loop.item = "Done"
    /\ loop.n = 2
    /\ loop.result = "Ok"
    /\ connection.bytes = <<0, 1, 2>>
    /\ connection.ending = "eof"
    /\ data.current_error # None

\* the bytes of the connection not read yet
Unread(c) == Drop(c.bytes, c.position)

\* the stream ends inside the length prefix of the next frame
PrefixCutShort(c) ==
    /\ c.ending = "eof"
    /\ Len(Unread(c)) > 0
    /\ Len(Unread(c)) < PrefixSize

\* the length the prefix of the next frame announces
Announced(c) == FromBeBytes(Take(Unread(c), PrefixSize))

\* the stream ends before the payload the prefix announces is complete
PayloadCutShort(c) ==
    /\ Len(Unread(c)) >= PrefixSize
    /\ Len(Unread(c)) - PrefixSize < Announced(c)

\* the payload of the next frame is complete and is not an event
PayloadUndecodable(c) ==
    /\ Len(Unread(c)) >= PrefixSize
    /\ Len(Unread(c)) - PrefixSize >= Announced(c)
    /\ Decode(Take(Drop(Unread(c), PrefixSize), Announced(c))) = None

\* the loop has ended with an error after the step
EndsWithError == loop'.pc = "returned" /\ loop'.result = "Err"

\* C18, as stated: a length prefix cut short by the end of the stream, a
\* payload shorter than its prefix announces and a payload that does not
\* decode each end the loop with an error.
C18_DecodeFailureFatal ==
    [][(/\ TakesRradioItem
        /\ \/ PrefixCutShort(connection)
           \/ PayloadCutShort(connection)
           \/ PayloadUndecodable(connection))
           => EndsWithError]_vars

\* C18, as the code has it: a payload cut short and a payload that does not
\* decode end the loop with an error; a length prefix cut short by the end
\* of the stream ends it as a clean closure does, with Done and Ok.
C18_FatalButPrefixCutShort ==
    [][/\ (TakesRradioItem /\ (PayloadCutShort(connection)
                               \/ PayloadUndecodable(connection)))
              => EndsWithError
       /\ (TakesRradioItem /\ PrefixCutShort(connection))
              => /\ loop'.item = "Done"
                 /\ loop'.pc = "returned"
                 /\ loop'.result = "Ok"]_vars

\* a frame was read and processed, one byte of the next length prefix
\* followed before the remote closed the stream, and do_run has returned Ok
C18_Witness ==
    /\ connection.bytes = <<0, 1, 2, 0>>
    /\ connection.ending = "eof"
    /\ loop.n = 2
    /\ loop.item = "Done"
    /\ loop.result = "Ok"

\* the next frame of the connection is complete
FrameComplete(c) ==
    /\ Len(Unread(c)) >= PrefixSize
    /\ Len(Unread(c)) - PrefixSize >= Announced(c)

\* the event the next frame encodes, if any
NextEvent(c) == Decode(Take(Drop(Unread(c), PrefixSize), Announced(c)))

\* the next item of rradio_events is the announcement of this version
AnnouncesVersion(c, version) ==
    /\ FrameComplete(c)
    /\ NextEvent(c) = Some(ProtocolVersionEvent(version))

\* C19: the announcement of a version other than the expected one ends the
\* loop with an error, and no step follows the return; the announcement of
\* the expected version changes neither the PlayerState nor the view, calls
\* neither the view nor the display, and the loop goes on to the next item.
C19_VersionGate ==
    [][/\ \A version \in Versions :
            (TakesRradioItem /\ AnnouncesVersion(connection, version)) =>
                IF version # VERSION
                  THEN /\ EndsWithError
                       /\ loop'.item = "ProtocolVersion"
                       /\ UNCHANGED <<view, data>>
                  ELSE /\ loop'.pc = "next"
                       /\ loop'.result = "None"
                       /\ loop'.iter = <<>>
                       /\ UNCHANGED <<view, data, display, grid, calls>>
       /\ loop.pc # "returned"]_vars

\* an item was processed, then another version was announced and do_run
\* has returned an error
C19_Witness ==
    /\ loop.item = "ProtocolVersion"
    /\ loop.n = 2
    /\ loop.pc = "returned"
    /\ loop.result = "Err"
    /\ connection.event_buffer = <<1, 1>>

\* the expected version was announced and the next item is being awaited
C19_WitnessExpected ==
    /\ loop.item = "ProtocolVersion"
    /\ loop.pc = "next"
    /\ connection.event_buffer = <<1>>
    /\ data = DefaultPlayerState

\* the outcomes of the connection attempts made so far
Attempts == {loop.attempts[i] : i \in 1..Len(loop.attempts)}

\* C20: while every attempt so far was refused, do_run is in the connect
\* loop: it has not returned and has taken no event.  A successful attempt
\* is the last one and do_run is past the connect loop, in the event loop or
\* returned from it.  An attempt that failed otherwise is the last one, and
\* do_run has returned an error without taking an event.
C20_ConnectLoop ==
    /\ Attempts \subseteq {"Refused"} =>
          /\ loop.pc = "connect"
          /\ loop.result = "None"
          /\ loop.n = 0
    /\ "Ok" \in Attempts =>
          /\ loop.attempts[Len(loop.attempts)] = "Ok"
          /\ loop.pc \in {"next", "paint", "returned"}
          /\ "Failed" \notin Attempts
    /\ "Failed" \in Attempts =>
          /\ loop.attempts[Len(loop.attempts)] = "Failed"
          /\ loop.pc = "returned"
          /\ loop.result = "Err"
          /\ loop.n = 0
    /\ \A i \in 1..(Len(loop.attempts) - 1) : loop.attempts[i] = "Refused"

\* an attempt was refused, the fallback screen was shown, and the next
\* attempt succeeded: the event loop has taken an item
C20_Witness ==
    /\ loop.attempts = <<"Refused", "Ok">>
    /\ loop.fallback
    /\ loop.n = 1

\* an attempt was refused and the next one failed otherwise
C20_WitnessFailed ==
    /\ loop.attempts = <<"Refused", "Failed">>
    /\ loop.result = "Err"

\* every cell of the grid
AllCells == {CursorPosition(r, c) : r \in 0..(SCREEN_HEIGHT - 1), c \in 0..(SCREEN_WIDTH - 1)}

\* the four lines run writes on a clean shutdown
ShutdownMessage ==
    Fit(<<"E", "n", "d", "i", "n", "g", " ", "s", "c", "r", "e", "e", "n",
          " ", "d", "r", "i", "v", "e", "r">>, SCREEN_WIDTH)
        \o Fit(<<"C", "o", "m", "p", "u", "t", "e", "r", " ", "n", "o", "t", " ",
          "s", "h", "u", "t">>, SCREEN_WIDTH)
        \o Fit(<<"d", "o", "w", "n">>, SCREEN_WIDTH)
        \o Spaces(SCREEN_WIDTH)

\* C21: when the loop of run has ended, the display is cleared first and
\* never again, and then every cell of the grid is written exactly once:
\* with the error's text from the first cell on when do_run returned an
\* error, with the four lines of the shutdown message when it returned Ok.
\* The grid shows that text and nothing of what it showed before.
C21_ExitScreen ==
    loop.pc = "exited" =>
        /\ calls[1] = ClearCall
        /\ \A i \in 2..Len(calls) : calls[i].call # "clear"
        /\ Cardinality(WriteIndexes(calls)) = CellCount
        /\ WrittenCells(calls) = AllCells
        /\ grid = IF loop.result = "Ok"
                    THEN ShutdownMessage
                    ELSE Fit(AlternateText(ExitStatus[1]), CellCount)

\* the fallback screen was shown, the connection then failed, and run has
\* written the error over it
C21_Witness ==
    /\ loop.pc = "exited"
    /\ loop.result = "Err"
    /\ loop.fallback
    /\ loop.attempts = <<"Refused", "Failed">>

\* a frame was processed, the stream was closed, and run has written the
\* shutdown message
C21_WitnessShutdown ==
    /\ loop.pc = "exited"
    /\ loop.result = "Ok"
    /\ loop.n = 2

\* a payload did not decode and run has written an error longer than the
\* grid
C21_WitnessLong ==
    /\ loop.pc = "exited"
    /\ loop.item = "Err"
    /\ connection.error = <<"Parsing msgpack", "DecodeError">>
    /\ Len(AlternateText(ExitStatus[1])) > CellCount

\* C22, as the code has it: the network messages are processed in the
\* order they were decoded and the ticks in the order they fired; when a
\* network message (or the end of the stream) and a tick are both ready,
\* the network message is processed next: a tick is processed only when
\* the stream of network messages has no item ready.
C22_RradioFirst ==
    /\ loop.item.kind = "RradioEvent" =>
          /\ pre.rradio # <<>>
          /\ loop.item.event = Head(pre.rradio)
    /\ loop.item.kind = "TickEvent" =>
          /\ pre.due >= 1
          /\ loop.item.time = (pre.previous_time + 1) % ClockSize
          /\ pre.rradio = <<>>
          /\ ~pre.closed
    /\ loop.item.kind = "Done" =>
          /\ pre.rradio = <<>>
          /\ pre.closed

\* a tick and two network messages were ready, and the first of the
\* messages was processed
C22_Witness ==
    /\ pre.due >= 1
    /\ pre.rradio = <<"m1", "m2">>
    /\ loop.item = RradioItem("m1")
    /\ loop.pc = "next"

\* a tick was processed while no network message was ready
C22_WitnessTick ==
    /\ loop.item.kind = "TickEvent"
    /\ loop.item.time = 2

\* C22, as stated: neither source has priority, so the network messages
\* cannot keep a tick from being processed: a tick that is ready while the
\* loop runs is processed, unless the loop ends first.
C22_TickNotKeptOut ==
    \A t \in 0..(ClockSize - 1) :
        (loop.pc = "next" /\ loop.due >= 1 /\ loop.previous_time = t)
            ~> (loop.previous_time # t \/ loop.pc = "returned")

\* how often an iteration has sampled the temperature source
Samples(iter) == Cardinality({i \in 1..Len(iter) : iter[i] = "get_temperature"})

\* the diff of the frame read last
DiffRead(c) == Decode(c.event_buffer)[1].diff

\* C23: an iteration that processes a diff carrying a ping value samples
\* the temperature source exactly once, and its state is the diff applied
\* to the state before with the temperature replaced by the sample.  Every
\* other step leaves the temperature as it is and does not sample the
\* source: a tick, a log message, a diff without a ping value, the paint
\* pass and the end of the loop.
C23_TemperatureWithPing ==
    [][IF /\ TakesRradioItem
          /\ loop'.item = "PlayerStateChanged"
          /\ DiffRead(connection').ping_times # None
         THEN /\ Samples(loop'.iter) = 1
              /\ \E temperature \in Temperatures :
                    data' = [ApplyDiff(data, DiffRead(connection'))
                                EXCEPT !.temperature = temperature]
         ELSE /\ data'.temperature = data.temperature
              /\ Samples(loop'.iter) = IF loop'.n = loop.n THEN Samples(loop.iter)
                                                            ELSE 0]_vars

\* a diff with a ping value was processed and the temperature is the
\* sample, no longer the default
C23_Witness ==
    /\ loop.item = "PlayerStateChanged"
    /\ connection.event_buffer = <<2, 1>>
    /\ data.ping_times = "Gateway"
    /\ data.temperature = 41
    /\ Samples(loop.iter) = 1

\* a diff without a ping value was processed: the temperature is still
\* the default
C23_WitnessUnchanged ==
    /\ loop.item = "PlayerStateChanged"
    /\ connection.event_buffer = <<2, 2>>
    /\ data.volume = 5
    /\ data.temperature = DefaultPlayerState.temperature
    /\ Samples(loop.iter) = 0

\* the scrolling label of the station's tags under station_view
StationTagsLabel(v) == v.inner.b.w0.w1.inner

\* C24: ScopeWidget event projects the inner data with the private state
\* as it was, runs the event handler on the private state, projects the
\* inner data again, updates the inner widget with the two projections and
\* then forwards the event to the updated inner widget with the second
\* projection.
C24_ScopeEventOrder ==
    op.name = "event" =>
        LET w == pre.view
            old_combined_data == ProduceData(w.scope, w.data, data)
            scope_data == HandleEvent(w.scope, w.data, data)
            combined_data == ProduceData(w.scope, scope_data, data)
            updated == Update(w.inner, old_combined_data, combined_data)
        IN /\ view.data = scope_data
           /\ view.scope = w.scope
           /\ view.initial_data = w.initial_data
           /\ view.inner = Event(updated, combined_data)

\* the tick that takes the private counter from 1 to 0 changes the variant
\* of the inner data: the update has force-repainted the view of the
\* station, and the event that followed it has taken one tick off the wait
\* of its scrolling label
C24_Witness ==
    /\ op.name = "event"
    /\ pre.view.data = 1
    /\ view.data = 0
    /\ ProduceData(view.scope, pre.view.data, data).tag = "A"
    /\ ProduceData(view.scope, view.data, data).tag = "B"
    /\ StationTagsLabel(view).needs_repainting
    /\ StationTagsLabel(view).text # None
    /\ StationTagsLabel(view).wait_ticks_remaining
          = WAIT_BEFORE_SCROLLING_TICKS_COUNT - 1

\* C25: ScopeWidget force_repaint sets the private state to the value the
\* scope was constructed with, whatever it was before, and force-repaints
\* the inner widget with the data projected from that value.
C25_ForceRepaintResetsScope ==
    op.name = "force_repaint" =>
        /\ view.data = NewStationView.data
        /\ view.initial_data = NewStationView.data
        /\ view.scope = pre.view.scope
        /\ view.inner = ForceRepaint(pre.view.inner,
                                     ProduceData(view.scope, NewStationView.data, data))

\* ticks had taken the private counter to 0 and the view of the station
\* had been painted; force_repaint has set the counter to its first value
\* and the inner widget shows the new station's index and title again
C25_Witness ==
    /\ op.name = "force_repaint"
    /\ pre.view.data = 0
    /\ pre.op.name = "paint"
    /\ ~StationTagsLabel(pre.view).needs_repainting
    /\ view.data = new_station_tics
    /\ ProduceData(view.scope, view.data, data).tag = "A"
    /\ AnyDirty(view, data)

\* the widget of an EitherWidget that data d selects, and the other one
Selected(w, d) == IF d.tag = "A" THEN w.a ELSE w.b

Hidden(w, d) == IF d.tag = "A" THEN w.b ELSE w.a

\* C26: every operation of an EitherWidget reaches only the widget of the
\* variant its data selects (the new data for update): the other widget
\* is as it was, and the display is written by the selected widget alone --
\* a hidden scrolling label does not advance on ticks.
C26_OnlySelectedReached ==
    [][op'.name \in {"event", "update", "force_repaint", "paint"} =>
          /\ Hidden(view', data') = Hidden(view, data')
          /\ calls' = IF op'.name = "paint"
                        THEN Paint(Selected(view, data'), data'.val,
                                   Writer(display)).d.out
                        ELSE <<>>
          /\ op'.name = "paint" =>
                Selected(view', data') =
                    Paint(Selected(view, data'), data'.val, Writer(display)).w
          /\ op'.name = "event" =>
                Selected(view', data') = Event(Selected(view, data'), data'.val)]_vars

\* a tick while the scrolling label is hidden in the middle of its text:
\* the label has stayed where it was
C26_Witness ==
    /\ op.name = "event"
    /\ data.tag = "B"
    /\ view.a.kind = "ScrollingLabel"
    /\ view.a.start_position > 0
    /\ view.a.wait_ticks_remaining = 0
    /\ view.a = pre.view.a

\* a paint while the hidden scrolling label is dirty: the fixed label and
\* the label are written, the scrolling label is still dirty
C26_WitnessPaint ==
    /\ op.name = "paint"
    /\ data.tag = "B"
    /\ view.a.needs_repainting
    /\ calls # <<>>

\* C27: a FixedLabel writes its string on the first paint after it was
\* constructed and on the first paint after each force_repaint, and on no
\* other paint; event and update leave it as it was, so never dirty it.
C27_FixedLabelWritesOnce ==
    /\ view.should_paint <=> since = 0
    /\ op.name = "paint" =>
          IF since = 1 THEN WrittenAt(calls) = Filled(view.segment, view.string)
                       ELSE calls = <<>>
    /\ op.name \in {"event", "update"} => view = pre.view

\* the first paint after a force_repaint that followed earlier paints,
\* with the data changed by an update in between
C27_Witness ==
    /\ op.name = "paint"
    /\ since = 1
    /\ pre.op.name = "update"
    /\ pre.op.changed
    /\ grid # BlankGrid
    /\ pre.grid # BlankGrid
    /\ calls # <<>>

\* a paint after an update that changed the data, with no force_repaint
\* since the paint before: nothing is written
C27_WitnessNotDirtied ==
    /\ op.name = "paint"
    /\ since = PaintCap
    /\ pre.op.name = "update"
    /\ pre.op.changed
    /\ calls = <<>>

\* the position n cells after p in row-major order
CellsFurther(p, n) ==
    CursorPosition(p.row + ((p.column + n) \div SCREEN_WIDTH),
                   (p.column + n) % SCREEN_WIDTH)

\* C28 as stated: for every position with its column on the grid and every
\* 8-bit offset n, offset(n) returns the position n cells further in
\* row-major order, wrapping as many rows as needed.
C28_OffsetExact ==
    op = "offset" /\ data.position.column < SCREEN_WIDTH =>
        view = Returned(CellsFurther(data.position, data.offset))

\* C28, what holds: offset(n) returns the position n cells further when
\* column + n and the row reached fit in 8 bits.
C28_OffsetExactIn8Bits ==
    op = "offset" /\ data.position.column + data.offset <= 255
                  /\ CellsFurther(data.position, data.offset).row <= 255 =>
        view = Returned(CellsFurther(data.position, data.offset))

\* an offset that carries into the fourth row after the position's
C28_Witness ==
    /\ op = "offset"
    /\ data.position = CursorPosition(0, SCREEN_WIDTH - 1)
    /\ data.offset = SCREEN_WIDTH * SCREEN_HEIGHT - 1
    /\ view = Returned(CursorPosition(4, SCREEN_WIDTH - 2))

\* column + n is over 255: the call panics, or returns a position that is
\* 256 cells short
C28_WitnessOverflow ==
    /\ op = "offset"
    /\ data.position = CursorPosition(0, SCREEN_WIDTH - 1)
    /\ data.offset = 237
    /\ view = Returned(CursorPosition(0, 0))

C28_WitnessPanic ==
    /\ op = "offset"
    /\ data.position = CursorPosition(0, SCREEN_WIDTH - 1)
    /\ data.offset = 237
    /\ view.panicked

\* the cells of a segment in order, each named by how many cells it is
\* after the first cell of the grid
CellNumbers(segment) ==
    [k \in 1..segment.length |->
        segment.position.row * SCREEN_WIDTH + segment.position.column + k - 1]

\* C29 as stated: for every segment and every offset not greater than its
\* length, split(offset) returns a head at the segment's position with
\* length offset and a tail of length - offset cells at that position
\* advanced by offset cells, so that the head's cells followed by the
\* tail's are the segment's cells; at offset = length the tail is empty.
C29_SplitPartitions ==
    op = "split" /\ data.offset <= data.segment.length =>
        /\ ~view.panicked
        /\ view.value[1] = Segment(data.segment.position, data.offset)
        /\ view.value[2] = Segment(CellsFurther(data.segment.position, data.offset),
                                   data.segment.length - data.offset)
        /\ CellNumbers(view.value[1]) \o CellNumbers(view.value[2])
              = CellNumbers(data.segment)

\* C29, what holds: the same for the segments whose position advanced by
\* the offset fits in 8 bits, which the segments on the grid are.
C29_SplitPartitionsIn8Bits ==
    op = "split" /\ data.offset <= data.segment.length
                 /\ ~OffsetOverflows(data.segment.position, data.offset) =>
        /\ ~view.panicked
        /\ view.value[1] = Segment(data.segment.position, data.offset)
        /\ view.value[2] = Segment(CellsFurther(data.segment.position, data.offset),
                                   data.segment.length - data.offset)
        /\ CellNumbers(view.value[1]) \o CellNumbers(view.value[2])
              = CellNumbers(data.segment)

\* the whole screen from the last column of the first row, split after 21
\* cells: the tail starts in the third row
C29_Witness ==
    /\ op = "split"
    /\ data.segment = Segment(CursorPosition(0, SCREEN_WIDTH - 1),
                              SCREEN_WIDTH * SCREEN_HEIGHT)
    /\ data.offset = SCREEN_WIDTH + 1
    /\ view = Returned(<<Segment(CursorPosition(0, SCREEN_WIDTH - 1), SCREEN_WIDTH + 1),
                         Segment(CursorPosition(2, 0),
                                 SCREEN_WIDTH * SCREEN_HEIGHT - SCREEN_WIDTH - 1)>>)

\* a split at the length: the tail has no cell
C29_WitnessEmptyTail ==
    /\ op = "split"
    /\ data.segment.length = SCREEN_WIDTH
    /\ data.offset = SCREEN_WIDTH
    /\ ~view.panicked
    /\ view.value[2].length = 0

\* a segment of 255 cells from the last column of a row, split after 237:
\* the tail is returned at the segment's own row
C29_WitnessOverflow ==
    /\ op = "split"
    /\ data.segment = Segment(CursorPosition(0, SCREEN_WIDTH - 1), 255)
    /\ data.offset = 237
    /\ view = Returned(<<Segment(CursorPosition(0, SCREEN_WIDTH - 1), 237),
                         Segment(CursorPosition(0, 0), 18)>>)

\* the last cell of the segment is in the last column of a row
EndsInLastColumn(segment) ==
    /\ segment.length > 0
    /\ (segment.position.column + segment.length) % SCREEN_WIDTH = 0

\* the move_cursor calls of ks that come after the last write_char
MovesAfterLastCell(ks) ==
    {i \in 1..Len(ks) : /\ ks[i].call = "move_cursor"
                        /\ \A j \in WriteIndexes(ks) : j < i}

\* C30 as stated: write_to issues no move_cursor after the last cell of
\* its segment has been written, also when that cell is in the last
\* column of a row, for every value written into the segment.
C30_NoMoveAfterLastCell ==
    op = "write_to" /\ data.segment.length > 0 =>
        MovesAfterLastCell(calls) = {}

\* C30, what holds: no move_cursor follows the last cell unless that cell
\* is in the last column of a row and the value is longer than the
\* segment; then one move_cursor to the start of the following row is
\* the last call.
C30_MoveAfterLastCellOnlyForLongValues ==
    op = "write_to" /\ data.segment.length > 0 =>
        IF EndsInLastColumn(data.segment) /\ Len(data.item) > data.segment.length
          THEN /\ MovesAfterLastCell(calls) = {Len(calls)}
               /\ calls[Len(calls)] =
                     MoveCursorCall(CursorPosition(
                         CellAt(data.segment.position, data.segment.length - 1).row + 1, 0))
          ELSE MovesAfterLastCell(calls) = {}

\* two characters written into the two last cells of a row
C30_Witness ==
    /\ op = "write_to"
    /\ data.segment = Segment(CursorPosition(1, SCREEN_WIDTH - 2), 2)
    /\ Len(data.item) = 2
    /\ calls = <<MoveCursorCall(CursorPosition(1, SCREEN_WIDTH - 2)),
                 WriteCharCall(data.item[1]), WriteCharCall(data.item[2])>>

\* three characters written into the two last cells of a row: the third
\* is dropped after a move to the following row
C30_WitnessLong ==
    /\ op = "write_to"
    /\ data.segment = Segment(CursorPosition(1, SCREEN_WIDTH - 2), 2)
    /\ Len(data.item) = 3
    /\ calls = <<MoveCursorCall(CursorPosition(1, SCREEN_WIDTH - 2)),
                 WriteCharCall(data.item[1]), WriteCharCall(data.item[2]),
                 MoveCursorCall(CursorPosition(2, 0))>>

\* C31: each write_to call begins with the one move_cursor to the start of
\* its own segment, and the device calls it issues are those of a new
\* writer given the same segment and value: the write_to calls before it
\* on the same writer have no part in them.
C31_WriteToIndependent ==
    op = "write_to" =>
        /\ {i \in 1..Len(calls) : calls[i] = MoveCursorCall(data.segment.position)} = {1}
        /\ calls = WriteTo(Writer(NewDisplay), data.segment, data.item).out

\* a write at the start of the first row, after a write of a longer value
\* into the two last cells of the second row
C31_Witness ==
    /\ op = "write_to"
    /\ since = 2
    /\ pre = [segment |-> Segment(CursorPosition(1, SCREEN_WIDTH - 2), 2),
              item |-> <<"a", " ", "a">>]
    /\ data = [segment |-> Segment(CursorPosition(0, 0), 1), item |-> <<"a">>]
    /\ calls = <<MoveCursorCall(CursorPosition(0, 0)), WriteCharCall("a")>>

\* the last operation was a scroll step that did not reset: a tick of a
\* label with over-long text and no wait left, which moved the start
ScrollStep ==
    /\ op.name = "event"
    /\ OverLong
    /\ pre.view.wait_ticks_remaining = 0
    /\ ~WasReset

\* C32 as stated: every scroll step that does not reset moves the start
\* offset to the first character of a whitespace-delimited word: the
\* character at the new start offset is not whitespace and the character
\* before it is whitespace.
C32_StepLandsOnWordStart ==
    ScrollStep =>
        /\ ~IsWhitespace(view.text[1][view.start_position + 1])
        /\ IsWhitespace(view.text[1][view.start_position])

\* C32, what holds: the character at the new start offset is not
\* whitespace, and the character before it is whitespace unless the step
\* advances by MAX_SCROLL over MAX_SCROLL characters none of which is
\* whitespace: the new start then lies inside the word the remainder
\* began with.
C32_StepLandsOnWordStartOrInWord ==
    ScrollStep =>
        /\ view.start_position > pre.view.start_position
        /\ ~IsWhitespace(view.text[1][view.start_position + 1])
        /\ \/ IsWhitespace(view.text[1][view.start_position])
           \/ /\ view.start_position = pre.view.start_position + MAX_SCROLL
              /\ \A k \in 1..MAX_SCROLL : ~IsWhitespace(Remainder[k])

\* a step to the start of the second word
C32_Witness ==
    /\ ScrollStep
    /\ pre.view.start_position = 0
    /\ view.start_position = 2
    /\ IsWhitespace(data[2])
    /\ ~IsWhitespace(data[3])

\* a step into a word of seven characters
C32_WitnessInWord ==
    /\ ScrollStep
    /\ \A k \in 1..7 : ~IsWhitespace(data[k])
    /\ view.start_position = MAX_SCROLL

\* C33 as stated: a single scroll step never advances the start offset by
\* more than MAX_SCROLL characters, for every text.
C33_StepAtMostMaxScroll ==
    ScrollStep => view.start_position - pre.view.start_position <= MAX_SCROLL

\* C33, what holds: a scroll step advances by at most MAX_SCROLL
\* characters unless whitespace follows the scan's stop; it then goes on
\* to the end of that run of whitespace, however long the run is.
C33_StepAtMostMaxScrollOrPastWhitespace ==
    ScrollStep =>
        LET step == view.start_position - pre.view.start_position
        IN \/ step <= MAX_SCROLL
           \/ /\ IsWhitespace(Remainder[step])
              /\ \E stop \in 1..MAX_SCROLL :
                    \A k \in (stop + 1)..step : IsWhitespace(Remainder[k])

\* a step of exactly MAX_SCROLL characters
C33_Witness ==
    /\ ScrollStep
    /\ view.start_position - pre.view.start_position = MAX_SCROLL

\* a step over a run of seven whitespace characters: eight characters
C33_WitnessGap ==
    /\ ScrollStep
    /\ data = GapText
    /\ pre.view.start_position = 0
    /\ view.start_position = 8

\* the last operation was the first one on a new label with over-long
\* text, and it was a tick
FirstTick ==
    /\ op.name = "event"
    /\ pre.op.name = "new"
    /\ OverLong

\* C34 as stated, for the first of the two ticks: the first tick after
\* the construction of a ScrollingLabel whose text exceeds its segment
\* leaves the start offset at 0 and takes one tick off the wait.
C34_NewLabelWaits ==
    FirstTick =>
        /\ view.start_position = 0
        /\ ~WasReset

\* C34, what holds: a new label has no wait left, so its first tick is a
\* scroll step: it moves the start offset, or resets the label when the
\* text has 6 characters or fewer or nothing but whitespace follows the
\* scan's stop; the wait of WAIT_TICKS ticks begins only with a reset.
C34_NewLabelScrollsAtOnce ==
    FirstTick =>
        /\ pre.view.wait_ticks_remaining = 0
        /\ pre.view.start_position = 0
        /\ view.needs_repainting
        /\ IF Len(data) <= CHARACTERS_REMAINING_RESET_COUNT \/ LaterStarts(data) = {}
             THEN WasReset
             ELSE view.start_position > 0 /\ view.wait_ticks_remaining = 0

\* the first tick of a new label moves its start offset to the second word
C34_Witness ==
    /\ FirstTick
    /\ pre.view = ScrollingLabel(view.segment)
    /\ view.start_position = 2
    /\ Len(data) = MaxTextLen

\* what the region of the volume and the pipeline state shows
RegionText == SubSeq(GridRow(grid, 0), 14, SCREEN_WIDTH)

ShowsVolume == RegionText = <<"V", "o", "l", " ">> \o RightAligned(IntText(data.volume), 3)

ShowsPipelineState == RegionText = RightAligned(PipelineStateText(data.state), 7)

\* C35 as stated: while the pipeline state is not Playing, after an update
\* that changes the volume and not the pipeline state every paint shows
\* the volume until two ticks have been processed, and the paint after
\* the second tick shows the pipeline state again; an update that changes
\* the pipeline state ends the volume display at once; while the pipeline
\* state is Playing the volume is always shown.
C35_VolumeForTwoTicks ==
    op.name # "new" =>
        IF data.state = "Playing" THEN ShowsVolume
        ELSE IF since < 2 THEN ShowsVolume
        ELSE ShowsPipelineState

\* C35, what holds: the same, but a force_repaint that comes with the
\* update or before the second tick after it ends the volume display too.
C35_VolumeForTwoTicksUnlessRepainted ==
    op.name # "new" =>
        IF data.state = "Playing" THEN ShowsVolume
        ELSE IF since < 2 /\ ~op.cleared THEN ShowsVolume
        ELSE ShowsPipelineState

\* the paint after the first tick after a change of the volume: the
\* volume is shown
C35_Witness ==
    /\ op.name = "TickEvent"
    /\ pre.op.name = "PlayerStateChanged"
    /\ since = 1
    /\ ~op.cleared
    /\ data.state = "Paused"
    /\ ShowsVolume

\* the paint after the second tick shows the pipeline state again
C35_WitnessSecondTick ==
    /\ op.name = "TickEvent"
    /\ since = 2
    /\ ~op.cleared
    /\ data.state = "Paused"
    /\ ShowsPipelineState

\* an update that changes the volume and the pipeline state
C35_WitnessBoth ==
    /\ op.name = "PlayerStateChanged"
    /\ pre.data.volume # data.volume
    /\ pre.data.state = "Null"
    /\ data.state = "Paused"
    /\ ShowsPipelineState

\* a diff changes the volume and the station: the pipeline state is shown
C35_WitnessRepainted ==
    /\ op.name = "PlayerStateChanged"
    /\ pre.data.volume # data.volume
    /\ pre.data.state = data.state
    /\ op.cleared
    /\ data.state = "Paused"
    /\ ShowsPipelineState

\* the station the state has selected
CurrentStation == StationOf(data.current_station[1].val)

\* the screen shows the new station's index and title and nothing else
ShowsBanner ==
    /\ GridRow(grid, 0) = Fit(CurrentStation.index[1], SCREEN_WIDTH)
    /\ GridRow(grid, 1) = Fit(CurrentStation.title[1], SCREEN_WIDTH)
    /\ GridRow(grid, 2) = Spaces(SCREEN_WIDTH)
    /\ GridRow(grid, 3) = Spaces(SCREEN_WIDTH)

\* the screen shows the view of the station: the volume or the pipeline
\* state at the end of the first row
ShowsStationView ==
    LET region == SubSeq(GridRow(grid, 0), 14, SCREEN_WIDTH)
    IN \/ region = RightAligned(PipelineStateText(data.pipeline_state), 7)
       \/ region = <<"V", "o", "l", " ">> \o RightAligned(IntText(data.volume), 3)

\* C36: after every diff that sets a station, also one that carries the
\* station already selected, the screen shows the new station's index and
\* title until two ticks have been processed, and then the view of the
\* station; a diff that does not touch the station, and a log message,
\* never bring the banner back.
C36_BannerForTwoTicks ==
    (op.name # "do_run" /\ data.current_station # None) =>
        /\ since < 2 => ShowsBanner /\ ~ShowsStationView
        /\ since >= 2 => ShowsStationView /\ ~ShowsBanner
        /\ (op.name = "PlayerStateChanged" /\ HasChanged(op.arg.current_station)) =>
              /\ since = 0
              /\ pre.current_station # None =>
                    pre.current_station[1].ptr # data.current_station[1].ptr

\* a diff sets the station that is already selected, after the banner of
\* the first diff has gone: the banner is back
C36_Witness ==
    /\ op.name = "PlayerStateChanged"
    /\ HasChanged(op.arg.current_station)
    /\ pre.current_station # None
    /\ data.current_station # None
    /\ pre.current_station[1].val = data.current_station[1].val
    /\ since = 0
    /\ loop.n = 4
    /\ ShowsBanner

\* the second tick after the diff: the view of the station is shown
C36_WitnessStationView ==
    /\ op.name = "TickEvent"
    /\ data.current_station # None
    /\ since = 2
    /\ ShowsStationView

\* a diff of the volume after the banner has gone
C36_WitnessOtherDiff ==
    /\ op.name = "PlayerStateChanged"
    /\ ~HasChanged(op.arg.current_station)
    /\ data.current_station # None
    /\ since = 2
    /\ ShowsStationView

\* widget w with every widget that data d selects marked dirty, and the
\* widget-local state (scope data, scroll offsets, cached text) as it is
RECURSIVE MarkDirty(_, _)
MarkDirty(w, d) ==
    CASE w.kind = "FixedLabel" -> [w EXCEPT !.should_paint = TRUE]
      [] w.kind = "Label" -> [w EXCEPT !.needs_repainting = TRUE]
      [] w.kind = "ScrollingLabel" -> [w EXCEPT !.needs_repainting = TRUE]
      [] w.kind = "GeneratedLabel" -> [w EXCEPT !.previous_value = None]
      [] w.kind = "LensWidget" ->
            [w EXCEPT !.inner = MarkDirty(w.inner, ApplyLens(w.lens, d))]
      [] w.kind = "ScopeWidget" ->
            [w EXCEPT !.inner = MarkDirty(w.inner, ProduceData(w.scope, w.data, d))]
      [] w.kind = "EitherWidget" ->
            IF d.tag = "A" THEN [w EXCEPT !.a = MarkDirty(w.a, d.val)]
                           ELSE [w EXCEPT !.b = MarkDirty(w.b, d.val)]
      [] w.kind = "WidgetGroup" ->
            [w EXCEPT !.w0 = MarkDirty(w.w0, d), !.w1 = MarkDirty(w.w1, d)]
      [] OTHER -> w

\* what a blank display shows after a repaint of every widget of the
\* active view from the current state
FromScratch ==
    GridAfter(BlankGrid, Paint(MarkDirty(view, data), data, Writer(NewDisplay)).d.out)

\* C37: after the paint pass of every iteration of the event loop the
\* display shows what a repaint from scratch of the current PlayerState
\* and widget-local state shows on a blank display: the cells of the
\* active view hold its characters and every other cell is blank.  A
\* paint pass leaves no widget dirty; only the clock moving on after the
\* pass makes a widget dirty again, and the display is then behind until
\* the next pass.
C37_IncrementalIsFull ==
    op.name # "do_run" =>
        /\ AnyDirty(view, data) => now > 0
        /\ ~AnyDirty(view, data) => grid = FromScratch

\* the banner of a new station after the screen without a station: the
\* date and the time of that screen are gone
C37_Witness ==
    /\ op.name = "PlayerStateChanged"
    /\ pre.current_station = None
    /\ data.current_station # None
    /\ loop.n >= 2
    /\ ~AnyDirty(view, data)
    /\ grid = FromScratch
    /\ GridRow(grid, 2) = Spaces(SCREEN_WIDTH)

\* the view of the station takes the place of the banner without a clear
C37_WitnessNoClear ==
    /\ op.name = "TickEvent"
    /\ data.current_station # None
    /\ since = 2
    /\ ClearCall \notin {calls[i] : i \in 1..Len(calls)}
    /\ ~AnyDirty(view, data)
    /\ grid = FromScratch
    /\ ShowsStationView
    /\ GridRow(grid, 0) # Fit(CurrentStation.index[1], SCREEN_WIDTH)

\* C38: a ScrollingLabel with over-long text that receives only ticks
\* moves its start offset forward with every scroll step that does not
\* reset, and is reset to offset 0 again and again.
C38_ScrollsAndResetsForever ==
    /\ [](ScrollStep => view.start_position > pre.view.start_position)
    /\ []<>(op.name = "event" /\ WasReset)

\* a reset after two scroll steps
C38_Witness ==
    /\ op.name = "event"
    /\ WasReset
    /\ pre.op.name = "event"
    /\ pre.view.start_position >= 4
    /\ pre.view.wait_ticks_remaining = 0

\* C39: in every state of a ScrollingLabel, under every sequence of event,
\* update, force_repaint and paint, the wait counter is at most
\* WAIT_BEFORE_SCROLLING_TICKS_COUNT, the start offset is 0 when no text is
\* cached, and when text is cached it is the text of the current data and
\* the start offset is the index of one of its characters (0 for the empty
\* text): the slices text[start_position..] of paint and of update_scroll
\* are within the text.
C39_StartWithinText ==
    /\ view.wait_ticks_remaining \in 0..WAIT_BEFORE_SCROLLING_TICKS_COUNT
    /\ view.start_position >= 0
    /\ view.text = None => view.start_position = 0
    /\ view.text # None =>
          /\ view.text = Some(data)
          /\ view.start_position <= Len(view.text[1])
          /\ view.start_position > 0 => view.start_position < Len(view.text[1])

\* a label that has scrolled to the last word of its text and was painted
C39_Witness ==
    /\ op.name = "paint"
    /\ view.text # None
    /\ view.start_position > 0
    /\ view.start_position = Len(view.text[1]) - 1
    /\ WrittenChars(calls)[1] = data[Len(data)]

\* no text is cached after a force_repaint of a label that had scrolled
C39_WitnessNoText ==
    /\ op.name = "force_repaint"
    /\ pre.view.start_position > 0
    /\ view.text = None
    /\ view.start_position = 0

\* the connection is established
Established == "Ok" \in Attempts

\* a step of do_run and what it does to the display: a connection attempt
\* makes the one clear when it succeeds and no call otherwise; an item of
\* the event loop is taken only once the connection is established; any
\* other step that changes the display is the fallback screen, before the
\* connect loop has ended
DisplayStep ==
    /\ loop'.attempts # loop.attempts =>
          IF loop'.pc = "next"
            THEN calls' = <<ClearCall>> /\ grid' = BlankGrid
            ELSE UNCHANGED <<calls, grid, display>>
    /\ loop'.n # loop.n =>
          /\ Established
          /\ loop.pc = "next"
          /\ op'.name \in {"PlayerStateChanged", "TickEvent"}
    /\ (/\ loop'.attempts = loop.attempts
        /\ loop'.n = loop.n
        /\ <<calls, grid, display>>' # <<calls, grid, display>>) =>
          /\ loop.pc = "connect"
          /\ ~Established
          /\ loop'.fallback

\* C40: the fallback screen and the view of the player never interleave on
\* the display.  The fallback screen writes only before the connection is
\* established; after the clear that follows the connection every display
\* call is made by an iteration of the event loop, so that after a paint
\* pass the display shows the view alone, as a repaint from scratch on a
\* blank display shows it.
C40_NeverInterleave ==
    /\ [](Established /\ ~AnyDirty(view, data) => grid = FromScratch)
    /\ [](~Established /\ loop.fallback =>
            GridRow(grid, 1) = Fit(<<"N", "o", " ", "c", "o", "n", "n", "e", "c", "t", "i", "o", "n",
          " ", "t", "o">>, SCREEN_WIDTH))
    /\ [][DisplayStep]_vars

\* the fallback screen was shown while an attempt was refused; the next
\* attempt succeeded and the event loop has painted the view of a station:
\* nothing of the fallback screen is left
C40_Witness ==
    /\ loop.attempts = <<"Refused", "Ok">>
    /\ loop.fallback
    /\ loop.n >= 2
    /\ op.name = "PlayerStateChanged"
    /\ data.current_station # None
    /\ ~AnyDirty(view, data)
    /\ grid = FromScratch
    /\ GridRow(grid, 1) # Fit(<<"N", "o", " ", "c", "o", "n", "n", "e", "c", "t", "i", "o", "n",
          " ", "t", "o">>, SCREEN_WIDTH)

\* the fallback screen is on the display before the connection is made
C40_WitnessFallback ==
    /\ loop.attempts = <<"Refused">>
    /\ loop.fallback
    /\ now = 1
    /\ GridRow(grid, 0) = Fit(MockIp, SCREEN_WIDTH)
    /\ GridRow(grid, 3) =
          Fit(CpuTempText(41), 15) \o Fit(TimeText(1), 5)

\* a step over a word of MAX_SCROLL characters and the whitespace after
\* it, to the start of the next word
C32_WitnessPastWord ==
    /\ ScrollStep
    /\ data = WordGapText
    /\ pre.view.start_position = 0
    /\ view.start_position = MAX_SCROLL + 1

=========================================================================
